---- MODULE Spec2Model ----
(***************************************************************************)
(* Model of skills/rag-systems/scripts/hybrid_rag_pipeline.py:             *)
(* RAGPipeline (ingest, query) over HybridRetriever (index, retrieve).     *)
(*                                                                         *)
(* Conventions                                                             *)
(*  - A Python exception is a record [status |-> "raised", error |-> ...]. *)
(*  - Weights are floats in the code; here they are integers in tenths     *)
(*    (0.3 is 3) and a rank contribution weight/(k+rank+1) is the exact    *)
(*    rational, kept as the integer weight * (RRFScale / (k+rank+1)).      *)
(*  - A chunk's text is a single word; md5(content)[:12] is the tagged     *)
(*    value <<"md5", content>>.                                            *)
(*  - The external libraries (rank_bm25, sentence_transformers, chromadb)  *)
(*    are the environment: each call into them either does what the        *)
(*    library does or raises (an injected provider fault).                 *)
(***************************************************************************)
EXTENDS Integers, Sequences, FiniteSets, TLC

VARIABLES
    mode,           \* "seq": public calls never overlap; "conc": they may;
                    \* "fusion", "repeat": queries only; "chunk": the chunker alone
    constructed,    \* has RAGPipeline.__init__ run
    config,         \* self.config (RAGConfig)
    chunks,         \* HybridRetriever.chunks
    bm25,           \* HybridRetriever.bm25: None or the index built at L260
    embeddings,     \* HybridRetriever.embeddings: None or the loaded model
    vector_store,   \* HybridRetriever.vector_store: None or a collection handle
    client_db,      \* the chromadb collection named config.collection_name
    ipc,            \* position of the running ingest/index call
    documents,      \* ingest()'s argument
    i_chunks,       \* index()'s argument
    i_out,          \* how the last ingest call ended
    rpc,            \* position of the running query/retrieve call
    r_loc,          \* retrieve()'s locals
    q_out,          \* what the last query call returned, until the next public call
    calls,          \* history: number of ingest calls started
    snap,           \* history: the retriever's indices when the running/last ingest was called
    gen,            \* history: which ingest call wrote chunks / bm25 / the collection
    seen,           \* history: which generations the running/last retrieve read
    prev,           \* history: the previous ingest call's documents and end, and
                    \* (mode "repeat") the rankings and result of the last retrieve
    ch,             \* AdaptiveChunker.chunk: position, argument, locals, result
    ctor,           \* the last RAGConfig(...) call: its keyword arguments and end
    other,          \* (mode "two") a second RAGPipeline of the process
    mpc,            \* (mode "llm") MultiProviderClient and its running generate
    buf,            \* (mode "buffer") BufferMemory
    rl,             \* (modes "rate", "safety") RateLimiter and the clock
    sp,             \* (mode "safety") SafetyPipeline: its audit log, last check
    agent,          \* (mode "react") the ReAct agent graph's run
    orch            \* (mode "orch") the orchestrator-worker graph's run

vars == <<mode, constructed, config, chunks, bm25, embeddings, vector_store,
          client_db, ipc, documents, i_chunks, i_out, rpc, r_loc, q_out,
          calls, snap, gen, seen, prev, ch, ctor, other, mpc, buf, rl, sp,
          agent, orch>>

\* the components a RAGPipeline call never touches
ext == <<other, mpc, buf, rl, sp, agent, orch>>

\* ------------------------------------------------------------------ bounds
MaxIngests == 2     \* ingest calls per behaviour
MaxScore == 2       \* BM25 scores are drawn from 0..MaxScore
MaxTextLen == 4     \* atoms per text handed to the chunker (MoreTexts apart)
MaxModels == 2      \* configurations in a list given to MultiProviderClient
MaxBufferSize == 2  \* largest max_size of a BufferMemory
MaxTime == 5        \* minutes on the RateLimiter's clock
MinutesPerHour == 3 \* the length of the RateLimiter's hour window, in minutes
MaxAdds == 5        \* add calls on a BufferMemory per behaviour
MaxGets == 2        \* get calls on a BufferMemory per behaviour
MaxChunks == 2      \* chunks one provider's response yields to a stream
MaxChecks == 2      \* check calls on a SafetyPipeline per behaviour
MaxIterations == 3   \* largest max_iterations of a ReAct agent's state
MaxToolCalls == 2   \* tool calls in one response of the ReAct agent's model
MaxTasks == 2       \* tasks in a plan of the orchestrator

\* --------------------------------------------------------------- constants
k == 60             \* RRF constant (retrieve)
ContextCut == 500   \* characters of the context the answer keeps
PreviewCut == 200   \* characters of a source's content the result keeps

None == [none |-> TRUE]

\* Common denominator of the rank contributions for ranks 0..3.
RRFScale == (k + 1) * (k + 2) * (k + 3) * (k + 4)

\* ----------------------------------------------------------------- helpers
Min(a, b) == IF a <= b THEN a ELSE b
Max(a, b) == IF a >= b THEN a ELSE b

\* Python's s[:n]
PySlice(s, n) ==
    IF n >= 0 THEN SubSeq(s, 1, Min(n, Len(s)))
    ELSE SubSeq(s, 1, Max(Len(s) + n, 0))

RECURSIVE Concat(_)
Concat(ss) == IF ss = <<>> THEN <<>> ELSE Head(ss) \o Concat(Tail(ss))

Range(s) == {s[i] : i \in 1..Len(s)}

IsInjective(s) == \A i, j \in 1..Len(s) : s[i] = s[j] => i = j

\* all orderings of a finite set, as sequences
Perms(S) == {p \in [1..Cardinality(S) -> S] : IsInjective(p)}

\* list.sort(key=lambda x: x[1], reverse=True) and sorted(..., reverse=True)
\* over <<item, key>> pairs: stable and descending, so that elements with
\* equal keys keep their original order.
RECURSIVE InsertDesc(_, _)
InsertDesc(sorted, x) ==
    IF sorted = <<>> THEN <<x>>
    ELSE IF Head(sorted)[2] >= x[2]
         THEN <<Head(sorted)>> \o InsertDesc(Tail(sorted), x)
         ELSE <<x>> \o sorted

RECURSIVE SortDescFrom(_, _)
SortDescFrom(acc, s) ==
    IF s = <<>> THEN acc
    ELSE SortDescFrom(InsertDesc(acc, Head(s)), Tail(s))

SortDesc(s) == SortDescFrom(<<>>, s)

\* ------------------------------------------------------------------ inputs
\* RAGConfig values the model constructs pipelines with.  RAGConfig has no
\* validation, so every field combination is constructible.
Configs == {
    [top_k_initial |-> 2, top_k_final |-> 1, bm25_weight |-> 3,
     vector_weight |-> 7, min_chunk_size |-> 2],
    [top_k_initial |-> 1, top_k_final |-> 2, bm25_weight |-> 0 - 3,
     vector_weight |-> 7, min_chunk_size |-> 2]
}

\* A document is given by the raw chunks the chunking strategy produces for
\* its text (raw_chunks, L107-112): each one's stripped text and its length.
\* The texts are single lower-case words.
Raw(c, n) == [content |-> c, size |-> n]
dA == <<Raw("alpha", 5)>>
dBC == <<Raw("bravo", 5), Raw("charlie", 7)>>
dTiny == <<Raw("x", 1)>>
dTA == <<Raw("x", 1), Raw("alpha", 5)>>

\* The document lists ingest is called with.
DocumentLists == {<<>>, <<dTiny>>, <<dA>>, <<dA, dBC>>, <<dTA, dA>>}

\* --------------------------------------------------------------- the Chunk
md5(content) == <<"md5", content>>

Chunk(content, metadata) ==
    [content |-> content, metadata |-> metadata, chunk_id |-> md5(content)]

RECURSIVE chunk_loop(_, _, _)
chunk_loop(raw_chunks, i, cfg) ==
    IF raw_chunks = <<>> THEN <<>>
    ELSE (IF Head(raw_chunks).size >= cfg.min_chunk_size
          THEN <<Chunk(Head(raw_chunks).content, [chunk_index |-> i])>>
          ELSE <<>>)
         \o chunk_loop(Tail(raw_chunks), i + 1, cfg)

chunker_chunk(doc, cfg) == chunk_loop(doc, 0, cfg)

ids_of(cs) == [i \in 1..Len(cs) |-> cs[i].chunk_id]

\* ------------------------------------------------------------ construction
NoOutcome == [status |-> "none", at |-> "", error |-> "", injected |-> FALSE]
Ok == [status |-> "ok", at |-> "", error |-> "", injected |-> FALSE]
Raised(at, error, injected) ==
    [status |-> "raised", at |-> at, error |-> error, injected |-> injected]

NoLocals == [bm25_results |-> <<>>, vector_results |-> <<>>, scores |-> <<>>,
             relevant_chunks |-> <<>>]
NothingSeen == [bm25 |-> 0 - 1, chunks |-> 0 - 1, coll |-> 0 - 1, full |-> FALSE]
NoResult == [result |-> None, outcome |-> NoOutcome]
NoPrev == [documents |-> <<>>, ingest_ok |-> FALSE, called |-> FALSE,
           lex |-> <<>>, vec |-> <<>>, result |-> <<>>]
NoCtor == [called |-> FALSE, kwargs |-> <<>>, outcome |-> NoOutcome]
\* a component that is not part of the specification at hand
Absent == [absent |-> TRUE]
NoChunking == [pc |-> "idle", text |-> <<>>, metadata |-> <<>>,
               is_code |-> FALSE, cores |-> <<>>, raw_chunks |-> <<>>,
               chunks |-> <<>>]

Indices == [chunks |-> chunks, bm25 |-> bm25, client_db |-> client_db,
            vector_store |-> vector_store]

\* a process in which no RAGPipeline has been constructed
NoPipeline ==
    /\ constructed = FALSE
    /\ config = None
    /\ chunks = <<>>
    /\ bm25 = None
    /\ embeddings = None
    /\ vector_store = None
    /\ client_db = None
    /\ ipc = "idle"
    /\ documents = <<>>
    /\ i_chunks = <<>>
    /\ i_out = NoOutcome
    /\ rpc = "idle"
    /\ r_loc = NoLocals
    /\ q_out = NoResult
    /\ calls = 0
    /\ snap = None
    /\ gen = [chunks |-> 0, bm25 |-> 0]
    /\ seen = NothingSeen
    /\ prev = NoPrev
    /\ ch = NoChunking
    /\ ctor = NoCtor

\* a process without a SafetyPipeline, a ReAct agent or an orchestrator
NoSkills == sp = Absent /\ agent = Absent /\ orch = Absent

InitCommon ==
    /\ NoPipeline
    /\ other = Absent
    /\ mpc = Absent
    /\ buf = Absent
    /\ NoSkills
    /\ rl = Absent

Init == mode = "seq" /\ InitCommon

InitConc == mode = "conc" /\ InitCommon

\* The fields of the RAGConfig dataclass (L29-48): the keyword arguments its
\* generated __init__ accepts.
RAGConfigFields == {"chunk_size", "chunk_overlap", "min_chunk_size",
                    "top_k_initial", "top_k_final", "bm25_weight",
                    "vector_weight", "embedding_model", "collection_name",
                    "persist_directory"}

\* Keyword arguments the model calls RAGConfig with: those of Configs, and
\* one of them with the key rrf_k added.
ConfigKwargs ==
    Configs \cup
    {[rrf_k |-> 10, top_k_initial |-> 2, top_k_final |-> 1, bm25_weight |-> 3,
      vector_weight |-> 7, min_chunk_size |-> 2]}

\* RAGConfig(**kwargs) and RAGPipeline.__init__ -> HybridRetriever.__init__:
\* the dataclass raises TypeError for a keyword that is not one of its
\* fields and stores any value of a field unvalidated; the retriever starts
\* empty.
RAGPipeline_init ==
    /\ ~constructed
    /\ \E kwargs \in ConfigKwargs :
          IF DOMAIN kwargs \subseteq RAGConfigFields
          THEN /\ config' = kwargs
               /\ ctor' = [called |-> TRUE, kwargs |-> kwargs, outcome |-> Ok]
               /\ constructed' = TRUE
               /\ chunks' = <<>>
               /\ bm25' = None
               /\ vector_store' = None
               /\ embeddings' = None
          ELSE /\ ctor' = [called |-> TRUE, kwargs |-> kwargs,
                           outcome |-> Raised("L30", "TypeError", FALSE)]
               /\ UNCHANGED <<config, constructed, chunks, bm25, vector_store,
                              embeddings>>
    /\ UNCHANGED <<mode, client_db, ipc, documents, i_chunks, i_out, rpc,
                   r_loc, q_out, calls, snap, gen, seen, prev, ch, ext>>

\* The concurrent specification ingests only corpora that index() accepts,
\* so that whatever a reader sees there comes from the interleaving alone.
Indexable(cs) == cs # <<>> /\ IsInjective(ids_of(cs))

\* The libraries' injected faults: the sequential specification has them,
\* the concurrent one runs against an environment that never fails.
Faulty == mode = "seq"

\* ------------------------------------------------------------------ ingest
\* an ingest whose chunk ids are drawn afresh on every call (a uuid per
\* chunk) instead of being computed from the content
ingest_fresh_ids ==
    /\ constructed
    /\ ipc = "idle"
    /\ mode = "seq" => rpc = "idle"
    /\ calls < MaxIngests
    /\ \E docs \in DocumentLists :
         LET all_chunks == Concat([d \in 1..Len(docs) |->
                                     chunker_chunk(docs[d], config)])
         IN /\ mode = "conc" => Indexable(all_chunks)
            /\ documents' = docs
            /\ i_chunks' = [i \in 1..Len(all_chunks) |->
                              [all_chunks[i] EXCEPT
                                  !.chunk_id = <<"uuid", calls, i>>]]
    /\ ipc' = "L255"
    /\ calls' = calls + 1
    /\ snap' = Indices
    /\ i_out' = NoOutcome
    /\ IF rpc = "idle"
       THEN q_out' = NoResult /\ seen' = NothingSeen
       ELSE UNCHANGED <<q_out, seen>>
    /\ prev' = [prev EXCEPT !.documents = documents,
                             !.ingest_ok = (i_out = Ok)]
    /\ UNCHANGED <<mode, constructed, config, chunks, bm25, embeddings,
                   vector_store, client_db, rpc, r_loc, gen, ch, ctor, ext>>

\* RAGPipeline.ingest: chunk every document, concatenate, call index().
ingest ==
    /\ constructed
    /\ ipc = "idle"
    /\ mode = "seq" => rpc = "idle"
    /\ calls < MaxIngests
    /\ \E docs \in DocumentLists :
         LET all_chunks == Concat([d \in 1..Len(docs) |->
                                     chunker_chunk(docs[d], config)])
         IN /\ mode = "conc" => Indexable(all_chunks)
            /\ documents' = docs
            /\ i_chunks' = all_chunks
    /\ ipc' = "L255"
    /\ calls' = calls + 1
    /\ snap' = Indices
    /\ i_out' = NoOutcome
    /\ IF rpc = "idle"
       THEN q_out' = NoResult /\ seen' = NothingSeen
       ELSE UNCHANGED <<q_out, seen>>
    /\ prev' = [prev EXCEPT !.documents = documents,
                             !.ingest_ok = (i_out = Ok)]
    /\ UNCHANGED <<mode, constructed, config, chunks, bm25, embeddings,
                   vector_store, client_db, rpc, r_loc, gen, ch, ctor, ext>>

IndexFrame == UNCHANGED <<mode, constructed, config, documents, i_chunks,
                          rpc, r_loc, q_out, calls, snap, seen, prev, ch, ctor, ext>>

IndexRaise(at, error, injected) ==
    /\ ipc' = "idle"
    /\ i_out' = Raised(at, error, injected)

\* an index() that extends the chunk list instead of replacing it
index_L255_extend ==
    /\ ipc = "L255"
    /\ chunks' = chunks \o i_chunks
    /\ gen' = [gen EXCEPT !.chunks = calls]
    /\ ipc' = "L258"
    /\ UNCHANGED <<bm25, embeddings, vector_store, client_db, i_out>>
    /\ UNCHANGED <<mode, constructed, config, documents, i_chunks, rpc, r_loc,
                   q_out, calls, snap, seen, prev, ch, ctor, ext>>

\* L255  self.chunks = chunks
index_L255 ==
    /\ ipc = "L255"
    /\ chunks' = i_chunks
    /\ gen' = [gen EXCEPT !.chunks = calls]
    /\ ipc' = "L258"
    /\ UNCHANGED <<bm25, embeddings, vector_store, client_db, i_out>>
    /\ IndexFrame

\* c.content.lower().split() of a single lower-case word: the one token
lower_split(text) == <<text>>

\* rank_bm25.BM25Okapi(corpus): _initialize ends with
\* avgdl = num_doc / corpus_size, a ZeroDivisionError for an empty corpus.
BM25Okapi(tokenized) ==
    IF Len(tokenized) = 0 THEN Raised("L260", "ZeroDivisionError", FALSE)
    ELSE [corpus |-> tokenized]

\* L258-260  import rank_bm25; self.bm25 = BM25Okapi(tokenized)
index_L260 ==
    /\ ipc = "L258"
    /\ LET tokenized == [i \in 1..Len(i_chunks) |->
                            lower_split(i_chunks[i].content)]
           built == BM25Okapi(tokenized)
       IN \/ /\ "status" \notin DOMAIN built
             /\ bm25' = built
             /\ gen' = [gen EXCEPT !.bm25 = calls]
             /\ ipc' = "L263"
             /\ UNCHANGED i_out
          \/ /\ "status" \in DOMAIN built
             /\ IndexRaise(built.at, built.error, built.injected)
             /\ UNCHANGED <<bm25, gen>>
          \/ /\ Faulty
             /\ IndexRaise("L258", "ImportError", TRUE)
             /\ UNCHANGED <<bm25, gen>>
    /\ UNCHANGED <<chunks, embeddings, vector_store, client_db>>
    /\ IndexFrame

\* L263-266  self.embeddings = SentenceTransformer(model)
index_L266 ==
    /\ ipc = "L263"
    /\ \/ /\ embeddings' = [model |-> "all-MiniLM-L6-v2"]
          /\ ipc' = "L268"
          /\ UNCHANGED i_out
       \/ /\ Faulty
          /\ IndexRaise("L266", "ProviderError", TRUE)
          /\ UNCHANGED embeddings
    /\ UNCHANGED <<chunks, bm25, vector_store, client_db, gen>>
    /\ IndexFrame

\* L268-276  client = PersistentClient(...); try: delete_collection except: pass
\* The deletion either removes the collection (or finds none) or raises, and
\* the bare except swallows the error and leaves the collection in place.
index_L274 ==
    /\ ipc = "L268"
    /\ \/ /\ client_db' = None
          /\ ipc' = "L278"
          /\ UNCHANGED i_out
       \/ /\ client_db # None /\ Faulty
          /\ UNCHANGED client_db
          /\ ipc' = "L278"
          /\ UNCHANGED i_out
       \/ /\ Faulty
          /\ IndexRaise("L268", "ProviderError", TRUE)
          /\ UNCHANGED client_db
    /\ UNCHANGED <<chunks, bm25, embeddings, vector_store, gen>>
    /\ IndexFrame

\* a collection handle works while the collection it was made for exists
Live(handle, db) ==
    IF handle = None \/ db = None THEN FALSE ELSE db.uid = handle.uid

\* L278  self.vector_store = client.create_collection(name): chromadb raises
\* when a collection of that name exists, else makes an empty collection.
index_L278 ==
    /\ ipc = "L278"
    /\ \/ /\ client_db = None
          /\ client_db' = [uid |-> calls, ids |-> <<>>, full |-> FALSE]
          /\ vector_store' = [uid |-> calls]
          /\ ipc' = "L284"
          /\ UNCHANGED i_out
       \/ /\ client_db # None
          /\ IndexRaise("L278", "UniqueConstraintError", TRUE)
          /\ UNCHANGED <<client_db, vector_store>>
       \/ /\ Faulty
          /\ IndexRaise("L278", "ProviderError", TRUE)
          /\ UNCHANGED <<client_db, vector_store>>
    /\ UNCHANGED <<chunks, bm25, embeddings, gen>>
    /\ IndexFrame

\* L284  embeddings = self.embeddings.encode([c.content for c in chunks])
index_L284 ==
    /\ ipc = "L284"
    /\ \/ /\ ipc' = "L286"
          /\ UNCHANGED i_out
       \/ /\ Faulty
          /\ IndexRaise("L284", "ProviderError", TRUE)
    /\ UNCHANGED <<chunks, bm25, embeddings, vector_store, client_db, gen>>
    /\ IndexFrame

\* L286-293  self.vector_store.add(ids=..., ...): chromadb validates the
\* whole batch first (duplicate ids raise DuplicateIDError), then stores it.
index_L286 ==
    /\ ipc = "L286"
    /\ LET ids == ids_of(i_chunks)
       IN \/ /\ IsInjective(ids)
             /\ Live(vector_store, client_db)
             /\ client_db' = [client_db EXCEPT !.ids = ids, !.full = TRUE]
             /\ ipc' = "idle"
             /\ i_out' = Ok
          \/ /\ ~IsInjective(ids)
             /\ IndexRaise("L286", "DuplicateIDError", FALSE)
             /\ UNCHANGED client_db
          \/ /\ Faulty
             /\ IndexRaise("L286", "ProviderError", TRUE)
             /\ UNCHANGED client_db
    /\ UNCHANGED <<chunks, bm25, embeddings, vector_store, gen>>
    /\ IndexFrame

\* ---------------------------------------------------------------- retrieve
\* a rank contribution that forgets the + 1 for the 0-based rank
RRFTerm_rank0(weight, rank) == weight * (RRFScale \div (k + rank))

\* weight / (k + rank + 1), scaled by RRFScale
RRFTerm(weight, rank) == weight * (RRFScale \div (k + rank + 1))

\* scores[chunk_id] = scores.get(chunk_id, 0) + term, on a dict kept as the
\* sequence of its <<key, value>> items in insertion order
RECURSIVE AddScore(_, _, _)
AddScore(scores, chunk_id, term) ==
    IF scores = <<>> THEN <<<<chunk_id, 0 + term>>>>
    ELSE IF Head(scores)[1] = chunk_id
         THEN <<<<chunk_id, Head(scores)[2] + term>>>> \o Tail(scores)
         ELSE <<Head(scores)>> \o AddScore(Tail(scores), chunk_id, term)

\* L326-329  for rank, (idx, _) in enumerate(bm25_results)
RECURSIVE fuse_bm25(_, _, _, _, _)
fuse_bm25(scores, bm25_results, rank, cs, cfg) ==
    IF bm25_results = <<>> THEN scores
    ELSE fuse_bm25(AddScore(scores, cs[Head(bm25_results)[1] + 1].chunk_id,
                            RRFTerm(cfg.bm25_weight, rank)),
                   Tail(bm25_results), rank + 1, cs, cfg)

\* L332-334  for rank, chunk_id in enumerate(vector_results["ids"][0])
RECURSIVE fuse_vector(_, _, _, _)
fuse_vector(scores, vector_ids, rank, cfg) ==
    IF vector_ids = <<>> THEN scores
    ELSE fuse_vector(AddScore(scores, Head(vector_ids),
                              RRFTerm(cfg.vector_weight, rank)),
                     Tail(vector_ids), rank + 1, cfg)

\* a descending sort that is not stable: sorted(...)[::-1], which puts an
\* element ahead of the earlier ones with an equal key
RECURSIVE InsertDesc_unstable(_, _)
InsertDesc_unstable(sorted, x) ==
    IF sorted = <<>> THEN <<x>>
    ELSE IF Head(sorted)[2] > x[2]
         THEN <<Head(sorted)>> \o InsertDesc_unstable(Tail(sorted), x)
         ELSE <<x>> \o sorted

RECURSIVE SortDesc_unstable(_, _)
SortDesc_unstable(acc, s) ==
    IF s = <<>> THEN acc
    ELSE SortDesc_unstable(InsertDesc_unstable(acc, Head(s)), Tail(s))

sorted_ids_unstable(scores, cfg) ==
    LET s == SortDesc_unstable(<<>>, scores)
    IN PySlice([i \in 1..Len(s) |-> s[i][1]], cfg.top_k_final)

\* L337-341  sorted(scores.keys(), key=scores[x], reverse=True)[:top_k_final]
sorted_ids(scores, cfg) ==
    LET s == SortDesc(scores)
    IN PySlice([i \in 1..Len(s) |-> s[i][1]], cfg.top_k_final)

\* L344  chunk_map = {c.chunk_id: c for c in self.chunks}: a later chunk
\* with the same id replaces an earlier one
chunk_map(cs) ==
    [cid \in Range(ids_of(cs)) |->
        cs[CHOOSE i \in 1..Len(cs) :
              /\ cs[i].chunk_id = cid
              /\ \A j \in 1..Len(cs) : cs[j].chunk_id = cid => j <= i]]

\* L345  [chunk_map[cid] for cid in sorted_ids if cid in chunk_map]
RECURSIVE lookup(_, _)
lookup(ids, cmap) ==
    IF ids = <<>> THEN <<>>
    ELSE (IF Head(ids) \in DOMAIN cmap THEN <<cmap[Head(ids)]>> ELSE <<>>)
         \o lookup(Tail(ids), cmap)

\* RAGPipeline.query enters HybridRetriever.retrieve
query ==
    /\ constructed
    /\ rpc = "idle"
    /\ mode = "seq" => ipc = "idle"
    /\ rpc' = "L306"
    /\ r_loc' = NoLocals
    /\ q_out' = NoResult
    /\ seen' = NothingSeen
    /\ UNCHANGED <<mode, constructed, config, chunks, bm25, embeddings,
                   vector_store, client_db, ipc, documents, i_chunks, i_out,
                   calls, snap, gen, prev, ch, ctor, ext>>

RetrieveFrame == UNCHANGED <<mode, constructed, config, chunks, bm25,
                             embeddings, vector_store, client_db, ipc,
                             documents, i_chunks, i_out, calls, snap, gen,
                             prev, ch, ctor, ext>>

QueryRaise(at, error, injected) ==
    /\ rpc' = "idle"
    /\ r_loc' = NoLocals
    /\ q_out' = [result |-> None, outcome |-> Raised(at, error, injected)]

\* L306-312  scores of every indexed chunk, sorted, cut to top_k_initial
retrieve_L307 ==
    /\ rpc = "L306"
    /\ \/ /\ bm25 = None
          /\ QueryRaise("L307", "AttributeError", FALSE)
          /\ UNCHANGED seen
       \/ /\ bm25 # None
          /\ \E bm25_scores \in [1..Len(bm25.corpus) -> 0..MaxScore] :
               LET bm25_results ==
                     [i \in 1..Len(bm25.corpus) |-> <<i - 1, bm25_scores[i]>>]
               IN r_loc' = [r_loc EXCEPT !.bm25_results =
                               PySlice(SortDesc(bm25_results),
                                       config.top_k_initial)]
          /\ seen' = [seen EXCEPT !.bm25 = gen.bm25]
          /\ rpc' = "L315"
          /\ UNCHANGED q_out
    /\ RetrieveFrame

\* L315  query_embedding = self.embeddings.encode([query])[0]
retrieve_L315 ==
    /\ rpc = "L315"
    /\ \/ /\ embeddings = None
          /\ QueryRaise("L315", "AttributeError", FALSE)
       \/ /\ embeddings # None
          /\ rpc' = "L316"
          /\ UNCHANGED <<q_out, r_loc>>
       \/ /\ embeddings # None /\ Faulty
          /\ QueryRaise("L315", "ProviderError", TRUE)
    /\ UNCHANGED seen
    /\ RetrieveFrame

\* L316-319  self.vector_store.query(n_results=top_k_initial): the nearest
\* min(n_results, count) ids of the collection, in an order the embedding
\* decides; a handle on a deleted collection raises.
retrieve_L316 ==
    /\ rpc = "L316"
    /\ \/ /\ vector_store = None
          /\ QueryRaise("L316", "AttributeError", FALSE)
          /\ UNCHANGED seen
       \/ /\ vector_store # None
          /\ ~Live(vector_store, client_db)
          /\ QueryRaise("L316", "InvalidCollectionException", FALSE)
          /\ UNCHANGED seen
       \/ /\ vector_store # None
          /\ Live(vector_store, client_db)
          /\ \E nearest \in Perms(Range(client_db.ids)) :
               r_loc' = [r_loc EXCEPT !.vector_results =
                            PySlice(nearest, config.top_k_initial)]
          /\ seen' = [seen EXCEPT !.coll = client_db.uid,
                                  !.full = client_db.full]
          /\ rpc' = "L326"
          /\ UNCHANGED q_out
       \/ /\ vector_store # None /\ Faulty
          /\ QueryRaise("L316", "ProviderError", TRUE)
          /\ UNCHANGED seen
    /\ RetrieveFrame

\* L322-329  scores = {}; the lexical loop, reading self.chunks[idx]
retrieve_L326 ==
    /\ rpc = "L326"
    /\ \/ /\ \E i \in 1..Len(r_loc.bm25_results) :
               r_loc.bm25_results[i][1] >= Len(chunks)
          /\ QueryRaise("L327", "IndexError", FALSE)
       \/ /\ \A i \in 1..Len(r_loc.bm25_results) :
               r_loc.bm25_results[i][1] < Len(chunks)
          /\ r_loc' = [r_loc EXCEPT !.scores =
                          fuse_bm25(<<>>, r_loc.bm25_results, 0, chunks, config)]
          /\ rpc' = "L332"
          /\ UNCHANGED q_out
    /\ seen' = [seen EXCEPT !.chunks = gen.chunks]
    /\ RetrieveFrame

\* L332-334  the vector loop
retrieve_L332 ==
    /\ rpc = "L332"
    /\ r_loc' = [r_loc EXCEPT !.scores =
                    fuse_vector(r_loc.scores, r_loc.vector_results, 0, config)]
    /\ rpc' = "L337"
    /\ UNCHANGED <<q_out, seen>>
    /\ RetrieveFrame

\* a retrieve whose score map is walked in an arbitrary (hash) order before
\* the sort, as a dict without insertion order would be
retrieve_L337_hashorder ==
    /\ rpc = "L337"
    /\ \E p \in Perms(1..Len(r_loc.scores)) :
         r_loc' = [r_loc EXCEPT !.relevant_chunks =
                      lookup(sorted_ids([i \in 1..Len(r_loc.scores) |->
                                            r_loc.scores[p[i]]], config),
                             chunk_map(chunks))]
    /\ rpc' = "L396"
    /\ UNCHANGED <<q_out, seen>>
    /\ RetrieveFrame

\* L337-345  sort, cut to top_k_final, map ids back to self.chunks, return
retrieve_L337 ==
    /\ rpc = "L337"
    /\ r_loc' = [r_loc EXCEPT !.relevant_chunks =
                    lookup(sorted_ids(r_loc.scores, config), chunk_map(chunks))]
    /\ rpc' = "L396"
    /\ UNCHANGED <<q_out, seen>>
    /\ RetrieveFrame

\* ------------------------------------------------------------------- query
\* "\n\n---\n\n".join(f"[Source {i+1}]\n{chunk.content}" ...), a text kept
\* as the sequence of its parts
RECURSIVE build_context(_, _)
build_context(relevant, i) ==
    IF relevant = <<>> THEN <<>>
    ELSE (IF i > 0 THEN <<[part |-> "separator"]>> ELSE <<>>)
         \o <<[part |-> "label", source |-> i + 1],
              [part |-> "content", text |-> Head(relevant).content]>>
         \o build_context(Tail(relevant), i + 1)

\* len() of the chunk texts of the model, and of the parts of a context:
\* the separator "\n\n---\n\n", a label "[Source i]\n", a chunk's content
TextLen(c) ==
    CASE c = "x" -> 1
      [] c = "alpha" -> 5
      [] c = "bravo" -> 5
      [] c = "delta" -> 5
      [] c = "charlie" -> 7
      [] c = "essay" -> 480

PartLen(p) ==
    CASE p.part = "separator" -> 7
      [] p.part = "label" -> 11
      [] p.part = "content" -> TextLen(p.text)

\* s[:n] of a text kept as its parts: the parts that fit, then the cut one
RECURSIVE PyCut(_, _)
PyCut(parts, n) ==
    IF parts = <<>> \/ n <= 0 THEN <<>>
    ELSE IF PartLen(Head(parts)) <= n
         THEN <<Head(parts)>> \o PyCut(Tail(parts), n - PartLen(Head(parts)))
         ELSE <<[part |-> "cut", of |-> Head(parts), chars |-> n]>>

\* c.content[:200] + "..."
preview(content) ==
    IF TextLen(content) <= PreviewCut THEN <<content, "...">>
    ELSE <<content, "[:200]", "...">>

\* L396-414  context, answer (the template around context[:500], L419-424)
\* and the returned dict.
query_L396 ==
    /\ rpc = "L396"
    /\ LET relevant == r_loc.relevant_chunks
           context == build_context(relevant, 0)
       IN q_out' = [result |->
                       [answer |-> [context_summary |->
                                       PyCut(context, ContextCut)],
                        sources |-> [i \in 1..Len(relevant) |->
                                       [content |-> preview(relevant[i].content),
                                        metadata |-> relevant[i].metadata]],
                        context_used |-> Len(relevant)],
                    outcome |-> Ok]
    /\ rpc' = "idle"
    /\ r_loc' = NoLocals
    /\ prev' = IF mode = "repeat"
               THEN [prev EXCEPT !.called = TRUE,
                                 !.lex = r_loc.bm25_results,
                                 !.vec = r_loc.vector_results,
                                 !.result = r_loc.relevant_chunks]
               ELSE prev
    /\ UNCHANGED <<seen, mode, constructed, config, chunks, bm25, embeddings,
                   vector_store, client_db, ipc, documents, i_chunks, i_out,
                   calls, snap, gen, ch, ctor, ext>>

\* ---------------------------------------------------------- specifications
Next ==
    \/ RAGPipeline_init
    \/ ingest
    \/ index_L255
    \/ index_L260
    \/ index_L266
    \/ index_L274
    \/ index_L278
    \/ index_L284
    \/ index_L286
    \/ query
    \/ retrieve_L307
    \/ retrieve_L315
    \/ retrieve_L316
    \/ retrieve_L326
    \/ retrieve_L332
    \/ retrieve_L337
    \/ query_L396

\* one public call at a time
Spec == Init /\ [][Next]_vars

\* ingest and query on two threads, interleaved statement by statement
SpecConc == InitConc /\ [][Next]_vars

\* retrieve as a function of the two rankings: a pipeline that has ingested
\* FusionDocuments, queried again and again
FusionConfigs == {
    [top_k_initial |-> 3, top_k_final |-> 3, bm25_weight |-> 10,
     vector_weight |-> 10, min_chunk_size |-> 2],
    [top_k_initial |-> 3, top_k_final |-> 4, bm25_weight |-> 10,
     vector_weight |-> 10, min_chunk_size |-> 2],
    [top_k_initial |-> 2, top_k_final |-> 2, bm25_weight |-> 3,
     vector_weight |-> 7, min_chunk_size |-> 2],
    [top_k_initial |-> 2, top_k_final |-> 2, bm25_weight |-> 0,
     vector_weight |-> 0, min_chunk_size |-> 2]
}

FusionDocuments == <<dA, dBC, <<Raw("delta", 5)>>>>

InitFusion ==
    /\ mode = "fusion"
    /\ constructed = TRUE
    /\ config \in FusionConfigs
    /\ documents = FusionDocuments
    /\ i_chunks = Concat([d \in 1..Len(FusionDocuments) |->
                             chunker_chunk(FusionDocuments[d], config)])
    /\ chunks = i_chunks
    /\ bm25 = BM25Okapi([i \in 1..Len(i_chunks) |->
                            lower_split(i_chunks[i].content)])
    /\ embeddings = [model |-> "all-MiniLM-L6-v2"]
    /\ vector_store = [uid |-> 1]
    /\ client_db = [uid |-> 1, ids |-> ids_of(i_chunks), full |-> TRUE]
    /\ ipc = "idle"
    /\ i_out = Ok
    /\ rpc = "idle"
    /\ r_loc = NoLocals
    /\ q_out = NoResult
    /\ calls = 1
    /\ snap = [chunks |-> <<>>, bm25 |-> None, client_db |-> None,
               vector_store |-> None]
    /\ gen = [chunks |-> 1, bm25 |-> 1]
    /\ seen = NothingSeen
    /\ prev = NoPrev
    /\ ch = NoChunking
    /\ ctor = NoCtor
    /\ other = Absent
    /\ mpc = Absent
    /\ buf = Absent
    /\ NoSkills
    /\ rl = Absent

NextFusion ==
    \/ query
    \/ retrieve_L307
    \/ retrieve_L315
    \/ retrieve_L316
    \/ retrieve_L326
    \/ retrieve_L332
    \/ retrieve_L337
    \/ query_L396

SpecFusion == InitFusion /\ [][NextFusion]_vars

\* the same query issued again and again over one ingested corpus, the last
\* retrieve's rankings and result remembered in prev
RepeatConfigs == {
    [top_k_initial |-> 2, top_k_final |-> 2, bm25_weight |-> 10,
     vector_weight |-> 10, min_chunk_size |-> 2],
    [top_k_initial |-> 3, top_k_final |-> 2, bm25_weight |-> 3,
     vector_weight |-> 7, min_chunk_size |-> 2]
}

RepeatDocuments == <<dA, <<Raw("bravo", 5), Raw("essay", 480)>>>>

InitRepeat ==
    /\ mode = "repeat"
    /\ constructed = TRUE
    /\ config \in RepeatConfigs
    /\ documents = RepeatDocuments
    /\ i_chunks = Concat([d \in 1..Len(RepeatDocuments) |->
                             chunker_chunk(RepeatDocuments[d], config)])
    /\ chunks = i_chunks
    /\ bm25 = BM25Okapi([i \in 1..Len(i_chunks) |->
                            lower_split(i_chunks[i].content)])
    /\ embeddings = [model |-> "all-MiniLM-L6-v2"]
    /\ vector_store = [uid |-> 1]
    /\ client_db = [uid |-> 1, ids |-> ids_of(i_chunks), full |-> TRUE]
    /\ ipc = "idle"
    /\ i_out = Ok
    /\ rpc = "idle"
    /\ r_loc = NoLocals
    /\ q_out = NoResult
    /\ calls = 1
    /\ snap = [chunks |-> <<>>, bm25 |-> None, client_db |-> None,
               vector_store |-> None]
    /\ gen = [chunks |-> 1, bm25 |-> 1]
    /\ seen = NothingSeen
    /\ prev = NoPrev
    /\ ch = NoChunking
    /\ ctor = NoCtor
    /\ other = Absent
    /\ mpc = Absent
    /\ buf = Absent
    /\ NoSkills
    /\ rl = Absent

SpecRepeat == InitRepeat /\ [][NextFusion]_vars

\* ------------------------------------------------ two pipelines, one process
\* RAGConfig's defaults for the two fields that place the vector collection
\* (L47-48); the first pipeline is constructed without them.
collection_name == "documents"
persist_directory == "./chroma_db"

\* The second pipeline's configurations.  Each differs from the first
\* pipeline's: in top_k_final, or in top_k_final and collection_name.
OtherConfigs == {
    [top_k_initial |-> 2, top_k_final |-> 1, bm25_weight |-> 10,
     vector_weight |-> 10, min_chunk_size |-> 2,
     collection_name |-> "documents", persist_directory |-> "./chroma_db"],
    [top_k_initial |-> 2, top_k_final |-> 1, bm25_weight |-> 10,
     vector_weight |-> 10, min_chunk_size |-> 2,
     collection_name |-> "notes", persist_directory |-> "./chroma_db"]
}

TwoConfig == [top_k_initial |-> 2, top_k_final |-> 2, bm25_weight |-> 10,
              vector_weight |-> 10, min_chunk_size |-> 2]

TwoDocuments == <<dA, dBC>>

\* the first pipeline has ingested TwoDocuments; the second one is constructed
InitTwo ==
    /\ mode = "two"
    /\ constructed = TRUE
    /\ config = TwoConfig
    /\ documents = TwoDocuments
    /\ i_chunks = Concat([d \in 1..Len(TwoDocuments) |->
                             chunker_chunk(TwoDocuments[d], config)])
    /\ chunks = i_chunks
    /\ bm25 = BM25Okapi([i \in 1..Len(i_chunks) |->
                            lower_split(i_chunks[i].content)])
    /\ embeddings = [model |-> "all-MiniLM-L6-v2"]
    /\ vector_store = [uid |-> 1]
    /\ client_db = [uid |-> 1, ids |-> ids_of(i_chunks), full |-> TRUE]
    /\ ipc = "idle"
    /\ i_out = Ok
    /\ rpc = "idle"
    /\ r_loc = NoLocals
    /\ q_out = NoResult
    /\ calls = 1
    /\ snap = [chunks |-> <<>>, bm25 |-> None, client_db |-> None,
               vector_store |-> None]
    /\ gen = [chunks |-> 1, bm25 |-> 1]
    /\ seen = NothingSeen
    /\ prev = NoPrev
    /\ ch = NoChunking
    /\ ctor = NoCtor
    /\ \E cfg \in OtherConfigs :
          other = [config |-> cfg, chunks |-> <<>>, bm25 |-> None,
                   vector_store |-> None, calls |-> 0, outcome |-> NoOutcome]
    /\ mpc = Absent
    /\ buf = Absent
    /\ NoSkills
    /\ rl = Absent

\* ingest() of the second pipeline, the whole call (L364-380, L248-293).  Its
\* index() writes the second retriever's fields and works on the collection
\* config.collection_name of the client at config.persist_directory: when
\* these are the first pipeline's, that is the first pipeline's collection.
other_ingest ==
    /\ mode = "two"
    /\ rpc = "idle"
    /\ other.calls < MaxIngests
    /\ \E docs \in DocumentLists :
         LET all_chunks == Concat([d \in 1..Len(docs) |->
                                     chunker_chunk(docs[d], other.config)])
             built == BM25Okapi([i \in 1..Len(all_chunks) |->
                                    lower_split(all_chunks[i].content)])
             ids == ids_of(all_chunks)
             shared == /\ other.config.collection_name = collection_name
                       /\ other.config.persist_directory = persist_directory
             uid == calls + other.calls + 1
         IN IF "status" \in DOMAIN built
            THEN \* L260 raised: the collection was not reached
                 /\ other' = [other EXCEPT !.chunks = all_chunks,
                                           !.calls = @ + 1,
                                           !.outcome = built]
                 /\ UNCHANGED client_db
            ELSE \* L274 deleted the collection, L278 made it anew, L286
                 \* filled it or raised on a duplicate id
                 /\ other' = [other EXCEPT
                        !.chunks = all_chunks,
                        !.bm25 = built,
                        !.vector_store = [uid |-> uid],
                        !.calls = @ + 1,
                        !.outcome = IF IsInjective(ids) THEN Ok
                                    ELSE Raised("L286", "DuplicateIDError",
                                                FALSE)]
                 /\ client_db' =
                       IF ~shared THEN client_db
                       ELSE IF IsInjective(ids)
                            THEN [uid |-> uid, ids |-> ids, full |-> TRUE]
                            ELSE [uid |-> uid, ids |-> <<>>, full |-> FALSE]
    /\ UNCHANGED <<mode, constructed, config, chunks, bm25, embeddings,
                   vector_store, ipc, documents, i_chunks, i_out, rpc, r_loc,
                   q_out, calls, snap, gen, seen, prev, ch, ctor, mpc, buf,
                   rl, sp, agent, orch>>

NextTwo ==
    \/ other_ingest
    \/ query
    \/ retrieve_L307
    \/ retrieve_L315
    \/ retrieve_L316
    \/ retrieve_L326
    \/ retrieve_L332
    \/ retrieve_L337
    \/ query_L396

SpecTwo == InitTwo /\ [][NextTwo]_vars

\* --------------------------------------------------------- AdaptiveChunker
\* A text is a sequence of atoms: " ", "\n", a punctuation mark, or a word
\* without whitespace (a keyword of the chunker or a one-letter word).
Whitespace == {" ", "\n"}

\* len() of an atom
AtomLen(a) ==
    CASE a \in {"def", "let", "var"} -> 3
      [] a \in {"class", "const", "async"} -> 5
      [] a \in {"import", "public", "static"} -> 6
      [] a = "private" -> 7
      [] a = "function" -> 8
      [] OTHER -> 1

\* len(s)
RECURSIVE PyLen(_)
PyLen(s) == IF s = <<>> THEN 0 ELSE AtomLen(Head(s)) + PyLen(Tail(s))

\* s.startswith(p)
StartsWith(s, p) == Len(s) >= Len(p) /\ SubSeq(s, 1, Len(p)) = p

\* s.lstrip(), s.rstrip(), s.strip()
RECURSIVE lstrip(_)
lstrip(s) ==
    IF s # <<>> /\ Head(s) \in Whitespace THEN lstrip(Tail(s)) ELSE s

RECURSIVE rstrip(_)
rstrip(s) ==
    IF s # <<>> /\ s[Len(s)] \in Whitespace
    THEN rstrip(SubSeq(s, 1, Len(s) - 1))
    ELSE s

strip(s) == rstrip(lstrip(s))

\* s.split(sep): the pieces between the occurrences of sep, found left to
\* right; cur is the piece being read
RECURSIVE str_split(_, _, _)
str_split(s, sep, cur) ==
    IF s = <<>> THEN <<cur>>
    ELSE IF StartsWith(s, sep)
         THEN <<cur>> \o str_split(SubSeq(s, Len(sep) + 1, Len(s)), sep, <<>>)
         ELSE str_split(Tail(s), sep, Append(cur, Head(s)))

\* s.split(): the maximal runs without whitespace
RECURSIVE split_words(_, _)
split_words(s, cur) ==
    IF s = <<>> THEN (IF cur = <<>> THEN <<>> ELSE <<cur>>)
    ELSE IF Head(s) \in Whitespace
         THEN (IF cur = <<>> THEN <<>> ELSE <<cur>>)
              \o split_words(Tail(s), <<>>)
         ELSE split_words(Tail(s), Append(cur, Head(s)))

\* sep.join(parts)
RECURSIVE str_join(_, _)
str_join(sep, parts) ==
    IF parts = <<>> THEN <<>>
    ELSE IF Len(parts) = 1 THEN parts[1]
         ELSE parts[1] \o sep \o str_join(sep, Tail(parts))

\* L129-137  the text holds at least two of the ten indicators, each a
\* keyword followed by a space
_is_code(text) ==
    LET code_indicators == {"def", "class", "import", "function", "const",
                            "let", "var", "public", "private", "static"}
        found == {ind \in code_indicators :
                    \E i \in 1..(Len(text) - 1) :
                       text[i] = ind /\ text[i + 1] = " "}
    IN Cardinality(found) >= 2

\* L208-211  re.split(r'(?<=[.!?])\s+', text): a run of whitespace that
\* follows a sentence mark separates two sentences and is dropped
RECURSIVE _split_sentences(_, _, _)
_split_sentences(s, cur, after_mark) ==
    IF s = <<>> THEN <<cur>>
    ELSE IF after_mark /\ Head(s) \in Whitespace
         THEN <<cur>> \o _split_sentences(lstrip(s), <<>>, FALSE)
         ELSE _split_sentences(Tail(s), Append(cur, Head(s)),
                               Head(s) \in {".", "!", "?"})

\* a sentence loop that forgets the chunk it was filling when a sentence
\* does not fit
RECURSIVE sentence_loop_lossy(_, _, _, _)
sentence_loop_lossy(sentences, acc, current_chunk, cfg) ==
    IF sentences = <<>>
    THEN [acc |-> acc, current_chunk |-> current_chunk]
    ELSE LET sent == Head(sentences)
         IN IF PyLen(current_chunk) + PyLen(sent) <= cfg.chunk_size
            THEN sentence_loop_lossy(Tail(sentences), acc,
                                     current_chunk \o sent \o <<" ">>, cfg)
            ELSE sentence_loop_lossy(Tail(sentences), acc,
                                     sent \o <<" ">>, cfg)

\* L158-164  for sent in sentences
RECURSIVE sentence_loop(_, _, _, _)
sentence_loop(sentences, acc, current_chunk, cfg) ==
    IF sentences = <<>>
    THEN [acc |-> acc, current_chunk |-> current_chunk]
    ELSE LET sent == Head(sentences)
         IN IF PyLen(current_chunk) + PyLen(sent) <= cfg.chunk_size
            THEN sentence_loop(Tail(sentences), acc,
                               current_chunk \o sent \o <<" ">>, cfg)
            ELSE sentence_loop(Tail(sentences),
                               IF current_chunk # <<>>
                               THEN Append(acc, current_chunk)
                               ELSE acc,
                               sent \o <<" ">>, cfg)

\* a paragraph loop that adds a paragraph only when it leaves room
RECURSIVE paragraph_loop_strict(_, _, _, _)
paragraph_loop_strict(paragraphs, acc, current_chunk, cfg) ==
    IF paragraphs = <<>>
    THEN [acc |-> acc, current_chunk |-> current_chunk]
    ELSE LET para == Head(paragraphs)
             flushed == IF current_chunk # <<>>
                        THEN Append(acc, current_chunk)
                        ELSE acc
         IN IF PyLen(current_chunk) + PyLen(para) < cfg.chunk_size
            THEN paragraph_loop_strict(Tail(paragraphs), acc,
                                       current_chunk \o para \o <<"\n", "\n">>,
                                       cfg)
            ELSE IF PyLen(para) > cfg.chunk_size
                 THEN LET r == sentence_loop(
                                  _split_sentences(para, <<>>, FALSE),
                                  flushed, <<>>, cfg)
                      IN paragraph_loop_strict(Tail(paragraphs), r.acc,
                                               r.current_chunk, cfg)
                 ELSE paragraph_loop_strict(Tail(paragraphs), flushed,
                                            para \o <<"\n", "\n">>, cfg)

\* L147-166  for para in paragraphs
RECURSIVE paragraph_loop(_, _, _, _)
paragraph_loop(paragraphs, acc, current_chunk, cfg) ==
    IF paragraphs = <<>>
    THEN [acc |-> acc, current_chunk |-> current_chunk]
    ELSE LET para == Head(paragraphs)
             flushed == IF current_chunk # <<>>
                        THEN Append(acc, current_chunk)
                        ELSE acc
         IN IF PyLen(current_chunk) + PyLen(para) <= cfg.chunk_size
            THEN paragraph_loop(Tail(paragraphs), acc,
                                current_chunk \o para \o <<"\n", "\n">>, cfg)
            ELSE IF PyLen(para) > cfg.chunk_size
                 THEN LET r == sentence_loop(
                                  _split_sentences(para, <<>>, FALSE),
                                  flushed, <<>>, cfg)
                      IN paragraph_loop(Tail(paragraphs), r.acc,
                                        r.current_chunk, cfg)
                 ELSE paragraph_loop(Tail(paragraphs), flushed,
                                     para \o <<"\n", "\n">>, cfg)

\* L141-169  the chunks of _chunk_text before the overlap is added
text_chunks(text, cfg) ==
    LET r == paragraph_loop(str_split(text, <<"\n", "\n">>, <<>>),
                            <<>>, <<>>, cfg)
    IN IF r.current_chunk # <<>>
       THEN Append(r.acc, r.current_chunk)
       ELSE r.acc

\* prev_words[-n:] for n > 0
LastWords(words, n) ==
    SubSeq(words, Max(1, Len(words) - n + 1), Len(words))

\* L213-227  every chunk but the first gets the last chunk_overlap words of
\* the chunk before it, joined by spaces, and a space, in front
_add_overlap(acc, cfg) ==
    IF acc = <<>> \/ cfg.chunk_overlap = 0 THEN acc
    ELSE [i \in 1..Len(acc) |->
            IF i > 1
            THEN str_join(<<" ">>,
                          LastWords(split_words(acc[i - 1], <<>>),
                                    cfg.chunk_overlap))
                 \o <<" ">> \o acc[i]
            ELSE acc[i]]

\* L139-172
_chunk_text(text, cfg) == _add_overlap(text_chunks(text, cfg), cfg)

\* a line loop that closes a chunk at the size ceiling only
RECURSIVE code_loop_size_only(_, _, _, _, _)
code_loop_size_only(lines, acc, current_chunk, current_size, cfg) ==
    IF lines = <<>>
    THEN (IF current_chunk # <<>>
          THEN Append(acc, str_join(<<"\n">>, current_chunk))
          ELSE acc)
    ELSE LET line == Head(lines)
             chunk1 == Append(current_chunk, line)
             size1 == current_size + PyLen(line) + 1
         IN IF size1 >= cfg.chunk_size
            THEN code_loop_size_only(Tail(lines),
                                     Append(acc, str_join(<<"\n">>, chunk1)),
                                     <<>>, 0, cfg)
            ELSE code_loop_size_only(Tail(lines), acc, chunk1, size1, cfg)

\* L181-204  for line in lines, and the flush of the last chunk
RECURSIVE code_loop(_, _, _, _, _)
code_loop(lines, acc, current_chunk, current_size, cfg) ==
    IF lines = <<>>
    THEN (IF current_chunk # <<>>
          THEN Append(acc, str_join(<<"\n">>, current_chunk))
          ELSE acc)
    ELSE LET line == Head(lines)
             line_size == PyLen(line) + 1
             is_boundary ==
                 \E kw \in {"def", "class", "function", "async"} :
                    StartsWith(strip(line), <<kw, " ">>)
             flush == is_boundary /\ current_chunk # <<>>
             acc1 == IF flush
                        THEN Append(acc, str_join(<<"\n">>, current_chunk))
                        ELSE acc
             chunk1 == Append(IF flush THEN <<>> ELSE current_chunk, line)
             size1 == (IF flush THEN 0 ELSE current_size) + line_size
         IN IF size1 >= cfg.chunk_size
            THEN code_loop(Tail(lines),
                           Append(acc1, str_join(<<"\n">>, chunk1)),
                           <<>>, 0, cfg)
            ELSE code_loop(Tail(lines), acc1, chunk1, size1, cfg)

\* L174-206
_chunk_code(text, cfg) ==
    code_loop(str_split(text, <<"\n">>, <<>>), <<>>, <<>>, 0, cfg)

\* an emit loop that measures the candidate before trimming it
RECURSIVE emit_loop_untrimmed(_, _, _, _, _)
emit_loop_untrimmed(raw_chunks, i, is_code, metadata, cfg) ==
    IF raw_chunks = <<>> THEN <<>>
    ELSE (IF PyLen(Head(raw_chunks)) >= cfg.min_chunk_size
          THEN <<Chunk(strip(Head(raw_chunks)),
                       [chunk_index |-> i, is_code |-> is_code] @@ metadata)>>
          ELSE <<>>)
         \o emit_loop_untrimmed(Tail(raw_chunks), i + 1, is_code, metadata, cfg)

\* L115-125  for i, content in enumerate(raw_chunks); the chunk's metadata is
\* {**metadata, "chunk_index": i, "is_code": is_code}, where a later key
\* replaces an equal earlier one
RECURSIVE emit_loop(_, _, _, _, _)
emit_loop(raw_chunks, i, is_code, metadata, cfg) ==
    IF raw_chunks = <<>> THEN <<>>
    ELSE (IF PyLen(strip(Head(raw_chunks))) >= cfg.min_chunk_size
          THEN <<Chunk(strip(Head(raw_chunks)),
                       [chunk_index |-> i, is_code |-> is_code] @@ metadata)>>
          ELSE <<>>)
         \o emit_loop(Tail(raw_chunks), i + 1, is_code, metadata, cfg)

\* the metadata dicts chunk() is called with
MetadataArgs == {<<>>, [source |-> "doc", chunk_index |-> 7]}

\* L90-112  bind the caller's metadata (a dict; None is taken as {}), detect
\* the kind of text and split it; cores keeps the chunks as they were before
\* _add_overlap (history)
chunk_L105 ==
    /\ ch.pc = "L105"
    /\ \E metadata \in MetadataArgs :
       ch' = [ch EXCEPT
                !.metadata = metadata,
                !.is_code = _is_code(ch.text),
                !.cores = IF _is_code(ch.text)
                          THEN _chunk_code(ch.text, config)
                          ELSE text_chunks(ch.text, config),
                !.raw_chunks = IF _is_code(ch.text)
                               THEN _chunk_code(ch.text, config)
                               ELSE _chunk_text(ch.text, config),
                !.pc = "L114"]
    /\ UNCHANGED <<mode, constructed, config, chunks, bm25, embeddings,
                   vector_store, client_db, ipc, documents, i_chunks, i_out,
                   rpc, r_loc, q_out, calls, snap, gen, seen, prev, ctor,
                   ext>>

\* L115-127  keep the chunks that are long enough, return
chunk_L114 ==
    /\ ch.pc = "L114"
    /\ ch' = [ch EXCEPT
                !.chunks = emit_loop(ch.raw_chunks, 0, ch.is_code,
                                     ch.metadata, config),
                !.pc = "done"]
    /\ UNCHANGED <<mode, constructed, config, chunks, bm25, embeddings,
                   vector_store, client_db, ipc, documents, i_chunks, i_out,
                   rpc, r_loc, q_out, calls, snap, gen, seen, prev, ctor,
                   ext>>

\* the chunker alone: AdaptiveChunker(config).chunk(text) for every text of
\* at most MaxTextLen atoms over Alphabet, and for MoreTexts
Alphabet == {"a", ".", " ", "\n", "def", "var"}

\* some longer texts: two lines of code; code with a line before a def; two
\* paragraphs, the first of two sentences; code with two lines before a def;
\* three paragraphs
MoreTexts == {
    <<"def", " ", "\n", "var", " ">>,
    <<"a", "\n", "def", " ", "var", " ">>,
    <<"a", ".", " ", "a", "\n", "\n", "a">>,
    <<"a", "\n", "a", "\n", "def", " ", "var", " ">>,
    <<"a", "\n", "\n", "a", "\n", "\n", "a">>
}

Texts == UNION {[1..n -> Alphabet] : n \in 0..MaxTextLen} \cup MoreTexts

ChunkConfigs ==
    [chunk_size : {2, 4}, chunk_overlap : {0, 1}, min_chunk_size : {0, 2, 4}]

InitChunk ==
    /\ mode = "chunk"
    /\ constructed = TRUE
    /\ config \in ChunkConfigs
    /\ chunks = <<>>
    /\ bm25 = None
    /\ embeddings = None
    /\ vector_store = None
    /\ client_db = None
    /\ ipc = "idle"
    /\ documents = <<>>
    /\ i_chunks = <<>>
    /\ i_out = NoOutcome
    /\ rpc = "idle"
    /\ r_loc = NoLocals
    /\ q_out = NoResult
    /\ calls = 0
    /\ snap = None
    /\ gen = [chunks |-> 0, bm25 |-> 0]
    /\ seen = NothingSeen
    /\ prev = NoPrev
    /\ \E text \in Texts : ch = [NoChunking EXCEPT !.pc = "L105", !.text = text]
    /\ ctor = NoCtor
    /\ other = Absent
    /\ mpc = Absent
    /\ buf = Absent
    /\ NoSkills
    /\ rl = Absent

NextChunk ==
    \/ chunk_L105
    \/ chunk_L114

SpecChunk == InitChunk /\ [][NextChunk]_vars

\* ------------------------------------------------------ MultiProviderClient
\* skills/llm-integration/scripts/multi_provider_client.py
Providers == {"anthropic", "openai", "ollama"}

ModelConfig(provider, model_id, priority) ==
    [provider |-> provider, model_id |-> model_id, priority |-> priority]

DEFAULT_MODELS ==
    <<ModelConfig("anthropic", "claude-sonnet-4-20250514", 1),
      ModelConfig("openai", "gpt-4o", 2),
      ModelConfig("ollama", "llama3.1", 3)>>

Priorities == 1..3

ModelIds == <<"model-1", "model-2", "model-3", "model-4">>

\* What the client is constructed with: None, or a list of at most MaxModels
\* configurations, the i-th one with the model id ModelIds[i].
ModelArgs ==
    {None} \cup
    UNION {{[list |-> [i \in 1..n |->
                          ModelConfig(pr[i][1], ModelIds[i], pr[i][2])]] :
                pr \in [1..n -> Providers \X Priorities]} : n \in 0..MaxModels}

\* models or DEFAULT_MODELS: None and the empty list are both falsy
or_default(models) ==
    IF models = None THEN DEFAULT_MODELS
    ELSE IF models.list = <<>> THEN DEFAULT_MODELS ELSE models.list

\* a list kept in the order it was given
sorted_models_unsorted(models) == models

\* sorted(models, key=lambda m: m.priority): ascending, and stable
RECURSIVE insert_by_priority(_, _)
insert_by_priority(sorted, m) ==
    IF sorted = <<>> THEN <<m>>
    ELSE IF Head(sorted).priority <= m.priority
         THEN <<Head(sorted)>> \o insert_by_priority(Tail(sorted), m)
         ELSE <<m>> \o sorted

RECURSIVE sorted_from(_, _)
sorted_from(acc, models) ==
    IF models = <<>> THEN acc
    ELSE sorted_from(insert_by_priority(acc, Head(models)), Tail(models))

sorted_models(models) == sorted_from(<<>>, models)

\* L323-327  self.models = sorted(models or DEFAULT_MODELS, key=priority)
MultiProviderClient_models(models) == sorted_models(or_default(models))

NoGenerate == [pc |-> "idle", i |-> 0, tried |-> <<>>, errors |-> <<>>,
               response |-> None, outcome |-> NoOutcome]

\* a stream call: its position, the turn of its loop, the chunks the turn's
\* provider has yielded, and what the consumer has received
NoStream == [pc |-> "idle", i |-> 0, n |-> 0, received |-> <<>>,
             outcome |-> NoOutcome]

InitLLM ==
    /\ mode = "llm"
    /\ NoPipeline
    /\ \E models \in ModelArgs :
          mpc = [given |-> models,
                 models |-> MultiProviderClient_models(models),
                 run |-> NoGenerate,
                 st |-> NoStream]
    /\ other = Absent
    /\ buf = Absent
    /\ NoSkills
    /\ rl = Absent

LLMFrame == UNCHANGED <<mode, constructed, config, chunks, bm25, embeddings,
                        vector_store, client_db, ipc, documents, i_chunks,
                        i_out, rpc, r_loc, q_out, calls, snap, gen, seen,
                        prev, ch, ctor, other, buf, rl, sp, agent, orch>>

\* L334-352  generate(prompt, system): messages, errors = []
generate ==
    /\ mode = "llm"
    /\ mpc.run.pc = "idle"
    /\ mpc.st.pc = "idle"
    /\ mpc' = [mpc EXCEPT !.run = [NoGenerate EXCEPT !.pc = "L354", !.i = 1],
                          !.st = NoStream]
    /\ LLMFrame

\* L354-366  one turn of `for config in self.models`: client.generate (with
\* its retries) returns a response, which generate returns, or raises an
\* Exception, which is appended to errors before the next turn; a
\* BaseException (the task was cancelled) leaves generate as it is.
generate_L354 ==
    /\ mode = "llm"
    /\ mpc.run.pc = "L354"
    /\ mpc.run.i <= Len(mpc.models)
    /\ LET cfg == mpc.models[mpc.run.i]
       IN \/ mpc' = [mpc EXCEPT
                       !.run.tried = Append(@, [model |-> cfg, ok |-> TRUE]),
                       !.run.response = [provider |-> cfg.provider,
                                         model |-> cfg.model_id],
                       !.run.pc = "idle",
                       !.run.outcome = Ok]
          \/ mpc' = [mpc EXCEPT
                       !.run.tried = Append(@, [model |-> cfg, ok |-> FALSE]),
                       !.run.errors = Append(@, cfg.provider),
                       !.run.i = @ + 1]
          \/ mpc' = [mpc EXCEPT
                       !.run.tried = Append(@, [model |-> cfg, ok |-> FALSE]),
                       !.run.pc = "idle",
                       !.run.outcome = Raised("L358", "CancelledError", TRUE)]
    /\ LLMFrame

\* L368  raise RuntimeError(f"All providers failed: {errors}")
generate_L368 ==
    /\ mode = "llm"
    /\ mpc.run.pc = "L354"
    /\ mpc.run.i > Len(mpc.models)
    /\ mpc' = [mpc EXCEPT !.run.pc = "idle",
                          !.run.outcome = Raised("L368", "RuntimeError", FALSE)]
    /\ LLMFrame

\* L370-381  stream(prompt, system): the consumer starts iterating
stream ==
    /\ mode = "llm"
    /\ mpc.run.pc = "idle"
    /\ mpc.st.pc = "idle"
    /\ mpc' = [mpc EXCEPT !.st = [NoStream EXCEPT !.pc = "L384", !.i = 1],
                          !.run = NoGenerate]
    /\ LLMFrame

\* L381-388  one step of `async for chunk in client.stream(...)` in the
\* turn of self.models[i]: the provider's response gives a chunk, which is
\* yielded to the consumer; or it ends, and stream returns; or reading it
\* raises an Exception, and the loop goes on with the next configuration; or
\* the consumer closes the generator (a BaseException at the yield).
stream_L384 ==
    /\ mode = "llm"
    /\ mpc.st.pc = "L384"
    /\ mpc.st.i <= Len(mpc.models)
    /\ LET cfg == mpc.models[mpc.st.i]
       IN \/ /\ mpc.st.n < MaxChunks
             /\ mpc' = [mpc EXCEPT
                          !.st.received = Append(@, [turn |-> mpc.st.i,
                                                     provider |-> cfg.provider,
                                                     n |-> mpc.st.n + 1]),
                          !.st.n = @ + 1]
          \/ mpc' = [mpc EXCEPT !.st.pc = "idle", !.st.outcome = Ok]
          \/ mpc' = [mpc EXCEPT !.st.i = @ + 1, !.st.n = 0]
          \/ /\ mpc.st.n > 0
             /\ mpc' = [mpc EXCEPT
                          !.st.pc = "idle",
                          !.st.outcome = Raised("L385", "GeneratorExit", TRUE)]
    /\ LLMFrame

\* L390  raise RuntimeError("All providers failed for streaming")
stream_L390 ==
    /\ mode = "llm"
    /\ mpc.st.pc = "L384"
    /\ mpc.st.i > Len(mpc.models)
    /\ mpc' = [mpc EXCEPT !.st.pc = "idle",
                          !.st.outcome = Raised("L390", "RuntimeError", FALSE)]
    /\ LLMFrame

NextLLM ==
    \/ generate \/ generate_L354 \/ generate_L368
    \/ stream \/ stream_L384 \/ stream_L390

SpecLLM == InitLLM /\ [][NextLLM]_vars

\* ------------------------------------------------------------ BufferMemory
\* skills/agent-memory/scripts/multi_layer_memory.py
Contents == {"a", "b"}

\* max_size values the buffer is constructed with; deque(maxlen=...) accepts
\* every non-negative one
BufferSizes == 0..MaxBufferSize

\* L96-105  the MemoryItem of an add: the id hashes the content and
\* datetime.now() of the call; obj tells the objects apart (the item is the
\* obj-th one made)
MemoryItem(content, now, obj) ==
    [id |-> <<"md5", content, now>>, content |-> content, obj |-> obj]

\* deque.append on a deque(maxlen=n): a full deque drops its leftmost item;
\* a deque of maxlen 0 stays empty
deque_append(buffer, maxlen, item) ==
    IF maxlen = 0 THEN <<>>
    ELSE IF Len(buffer) >= maxlen THEN Append(Tail(buffer), item)
    ELSE Append(buffer, item)

\* dict.pop(key, None) and dict[key] = item on a dict kept as the set of its
\* (key, item) entries
dict_pop(d, key) == {e \in d : e.key # key}
dict_set(d, key, item) == dict_pop(d, key) \cup {[key |-> key, item |-> item]}

NoGet == [called |-> FALSE, memory_id |-> <<>>, item |-> None]

InitBuffer ==
    /\ mode = "buffer"
    /\ NoPipeline
    /\ \E max_size \in BufferSizes :
          buf = [max_size |-> max_size, buffer |-> <<>>, _index |-> {},
                 now |-> 0, n |-> 0, gets |-> 0,
                 access_count |-> [o \in 1..MaxAdds |-> 0],
                 added |-> <<>>, got |-> NoGet, outcome |-> NoOutcome]
    /\ other = Absent
    /\ mpc = Absent
    /\ rl = Absent
    /\ NoSkills

BufferFrame == UNCHANGED <<mode, constructed, config, chunks, bm25, embeddings,
                           vector_store, client_db, ipc, documents, i_chunks,
                           i_out, rpc, r_loc, q_out, calls, snap, gen, seen,
                           prev, ch, ctor, other, mpc, rl, sp, agent, orch>>

\* L95-116  add(content): at capacity, self.buffer[0] is read and taken out
\* of _index (IndexError on an empty deque); then append and index the item.
\* datetime.now() (L97) reads the wall clock, which between two calls has
\* advanced (tick 1) or still shows the same microsecond (tick 0).
\* buf.added is history: the items added since the last clear.
BufferMemory_add ==
    /\ mode = "buffer"
    /\ buf.n < MaxAdds
    /\ \E content \in Contents, tick \in {0, 1} :
         LET item == MemoryItem(content, buf.now + tick, buf.n + 1)
             at_capacity == Len(buf.buffer) >= buf.max_size
         IN IF at_capacity /\ buf.buffer = <<>>
            THEN buf' = [buf EXCEPT
                            !.now = @ + tick,
                            !.n = @ + 1,
                            !.got = NoGet,
                            !.outcome = Raised("L110", "IndexError", FALSE)]
            ELSE buf' = [buf EXCEPT
                            !.buffer = deque_append(@, buf.max_size, item),
                            !._index = dict_set(
                                IF at_capacity
                                THEN dict_pop(@, Head(buf.buffer).id)
                                ELSE @,
                                item.id, item),
                            !.now = @ + tick,
                            !.n = @ + 1,
                            !.added = Append(@, item),
                            !.got = NoGet,
                            !.outcome = Ok]
    /\ BufferFrame

\* L132-137  get(memory_id): the item _index holds under the id, its
\* access_count raised, or None
BufferMemory_get ==
    /\ mode = "buffer"
    /\ buf.gets < MaxGets
    /\ \E memory_id \in {<<"md5", c, t>> : c \in Contents, t \in 0..buf.now} :
         LET hits == {e \in buf._index : e.key = memory_id}
         IN IF hits = {}
            THEN buf' = [buf EXCEPT
                            !.gets = @ + 1,
                            !.got = [called |-> TRUE, memory_id |-> memory_id,
                                     item |-> None],
                            !.outcome = Ok]
            ELSE LET item == (CHOOSE e \in hits : TRUE).item
                 IN buf' = [buf EXCEPT
                            !.gets = @ + 1,
                            !.access_count[item.obj] = @ + 1,
                            !.got = [called |-> TRUE, memory_id |-> memory_id,
                                     item |-> item],
                            !.outcome = Ok]
    /\ BufferFrame

\* L139-142  clear()
BufferMemory_clear ==
    /\ mode = "buffer"
    /\ buf' = [buf EXCEPT !.buffer = <<>>, !._index = {}, !.added = <<>>,
                          !.got = NoGet, !.outcome = Ok]
    /\ BufferFrame

NextBuffer == BufferMemory_add \/ BufferMemory_get \/ BufferMemory_clear

SpecBuffer == InitBuffer /\ [][NextBuffer]_vars

\* ------------------------------------------------------------- RateLimiter
\* skills/agent-safety/scripts/safety_guardrails.py.  The clock counts
\* minutes, and an hour of the model is MinutesPerHour minutes long.
Identifiers == {"u1", "u2"}

\* timedelta(minutes=n), timedelta(hours=n) on a clock of minutes
timedelta_minutes(n) == n
timedelta_hours(n) == MinutesPerHour * n

\* SafetyConfig values the limiter is constructed with (the fields check reads)
SafetyConfigs ==
    [requests_per_minute : {1, 2}, requests_per_hour : {2, 3},
     max_tokens_per_request : {1}]

TokenArgs == {1, 2}

\* L277-280  the defaultdict's factory: a fresh bucket pair, made at `now`
new_bucket(now) ==
    [minute |-> [count |-> 0, reset |-> now + timedelta_minutes(1)],
     hour |-> [count |-> 0, reset |-> now + timedelta_hours(1)]]

\* a limit that is found used up one request late
exhausted_late(remaining) == remaining < 0

\* L319, L321  `if minute_remaining <= 0`, `if hour_remaining <= 0`
exhausted(remaining) == remaining <= 0

NoCheck == [called |-> FALSE, identifier |-> "", tokens |-> 0,
            allowed |-> FALSE, blocked_by |-> "", minute_remaining |-> 0,
            hour_remaining |-> 0, own_minute |-> 0, own_hour |-> 0]

\* rl.allowed is history: per identifier, the check calls allowed since the
\* identifier's minute bucket and hour bucket were last made or reset.
InitRate ==
    /\ mode = "rate"
    /\ NoPipeline
    /\ \E cfg \in SafetyConfigs :
          rl = [config |-> cfg,
                _buckets |-> [i \in Identifiers |-> None],
                now |-> 0,
                allowed |-> [i \in Identifiers |-> [minute |-> 0, hour |-> 0]],
                last |-> NoCheck]
    /\ other = Absent
    /\ mpc = Absent
    /\ buf = Absent
    /\ NoSkills

RateFrame == UNCHANGED <<mode, constructed, config, chunks, bm25, embeddings,
                         vector_store, client_db, ipc, documents, i_chunks,
                         i_out, rpc, r_loc, q_out, calls, snap, gen, seen,
                         prev, ch, ctor, other, mpc, buf, sp, agent, orch>>

\* a minute passes between two calls
advance ==
    /\ mode = "rate"
    /\ rl.now < MaxTime
    /\ rl' = [rl EXCEPT !.now = @ + 1]
    /\ RateFrame

\* L282-330  check(identifier, tokens) on the limiter r: the limiter after
\* the call, the call's result in its field last
rate_limiter_check(r, identifier, tokens) ==
         LET now == r.now
             made == r._buckets[identifier] = None
             \* L293  bucket = self._buckets[identifier]
             b0 == IF made THEN new_bucket(now) ELSE r._buckets[identifier]
             \* L297-306  reset the buckets whose time has come
             m_reset == now >= b0.minute.reset
             h_reset == now >= b0.hour.reset
             b1 == [minute |-> IF m_reset
                               THEN [count |-> 0,
                                     reset |-> now + timedelta_minutes(1)]
                               ELSE b0.minute,
                    hour |-> IF h_reset
                             THEN [count |-> 0,
                                   reset |-> now + timedelta_hours(1)]
                             ELSE b0.hour]
             \* L309-310
             minute_remaining ==
                 r.config.requests_per_minute - b1.minute.count
             hour_remaining == r.config.requests_per_hour - b1.hour.count
             \* L319-324
             blocked_by ==
                 IF exhausted(minute_remaining) THEN "minute_limit"
                 ELSE IF exhausted(hour_remaining) THEN "hour_limit"
                 ELSE IF tokens > r.config.max_tokens_per_request
                      THEN "token_limit"
                      ELSE ""
             is_allowed == blocked_by = ""
             \* L327-328
             b2 == IF is_allowed
                   THEN [b1 EXCEPT !.minute.count = @ + 1,
                                   !.hour.count = @ + 1]
                   ELSE b1
             own == [minute |-> IF made \/ m_reset THEN 0
                                ELSE r.allowed[identifier].minute,
                     hour |-> IF made \/ h_reset THEN 0
                              ELSE r.allowed[identifier].hour]
         IN [r EXCEPT
                     !._buckets[identifier] = b2,
                     !.allowed[identifier] =
                         IF is_allowed
                         THEN [minute |-> own.minute + 1,
                               hour |-> own.hour + 1]
                         ELSE own,
                     !.last = [called |-> TRUE, identifier |-> identifier,
                               tokens |-> tokens, allowed |-> is_allowed,
                               blocked_by |-> blocked_by,
                               minute_remaining |-> minute_remaining,
                               hour_remaining |-> hour_remaining,
                               own_minute |-> own.minute,
                               own_hour |-> own.hour]]

RateLimiter_check ==
    /\ mode = "rate"
    /\ \E identifier \in Identifiers, tokens \in TokenArgs :
          rl' = rate_limiter_check(rl, identifier, tokens)
    /\ RateFrame

\* L332-335  reset(identifier): the identifier's buckets are deleted
RateLimiter_reset ==
    /\ mode = "rate"
    /\ \E identifier \in Identifiers :
          /\ rl._buckets[identifier] # None
          /\ rl' = [rl EXCEPT !._buckets[identifier] = None,
                              !.allowed[identifier] = [minute |-> 0,
                                                       hour |-> 0],
                              !.last = NoCheck]
    /\ RateFrame

NextRate == advance \/ RateLimiter_check \/ RateLimiter_reset

SpecRate == InitRate /\ [][NextRate]_vars

\* ---------------------------------------------------------- SafetyPipeline
\* skills/agent-safety/scripts/safety_guardrails.py.  A text is kept as what
\* the checks read of it: the INJECTION_PATTERNS that match it (in the
\* list's order), the marks _heuristic_analysis looks for, the categories of
\* CATEGORY_PATTERNS that match it, and its length.  Confidences count tenths.
DefaultBlocked == {"violence", "hate_speech", "self_harm", "illegal_activity"}

\* SafetyConfig values the pipeline is constructed with
PipelineConfigs ==
    [injection_threshold : {7},
     requests_per_minute : {1}, requests_per_hour : {2},
     max_tokens_per_request : {1},
     blocked_categories : {DefaultBlocked, DefaultBlocked \ {"hate_speech"}}]

Text(patterns, marks, issues, len) ==
    [patterns |-> patterns, marks |-> marks, issues |-> issues, len |-> len]

CheckedTexts ==
    {Text(<<>>, {}, {}, 5),
     Text(<<"ignore">>, {"backticks"}, {}, 30),
     Text(<<"ignore", "jailbreak">>, {}, {"violence"}, 60),
     Text(<<>>, {}, {"violence", "pii_exposure"}, 50),
     Text(<<>>, {"unicode"}, {"hate_speech"}, 20)}

\* L133  the patterns whose text holds "ignore", "disregard" or "system"
high_risk(pattern) == pattern \in {"ignore", "disregard", "system"}

\* L134-136  the boost of the matches that are high-risk patterns
RECURSIVE boosted(_, _)
boosted(confidence, matches) ==
    IF matches = <<>> THEN confidence
    ELSE boosted(IF high_risk(Head(matches))
                 THEN Min(confidence + 2, 10) ELSE confidence,
                 Tail(matches))

\* L147-170  _heuristic_analysis(text)
_heuristic_analysis(text) ==
    Min((IF "backticks" \in text.marks THEN 2 ELSE 0)
        + (IF "hashes" \in text.marks THEN 2 ELSE 0)
        + (IF text.len > 10000 THEN 1 ELSE 0)
        + (IF "newlines" \in text.marks THEN 1 ELSE 0)
        + (IF "unicode" \in text.marks THEN 2 ELSE 0), 6)

\* L111-145  PromptInjectionDetector.detect(text)
detect(text, cfg) ==
    LET matches == text.patterns
        by_patterns == IF matches = <<>> THEN 0
                       ELSE boosted(Min(Len(matches) * 3, 10), matches)
        confidence == Max(by_patterns, _heuristic_analysis(text))
    IN [is_injection |-> confidence >= cfg.injection_threshold,
        confidence |-> confidence,
        patterns |-> matches]

\* L227-261  ContentFilter.filter(text)
filter(text, cfg) ==
    LET detected == {c \in text.issues :
                        c \in cfg.blocked_categories \/ c = "pii_exposure"}
        risk_level ==
            IF detected = {} THEN "safe"
            ELSE IF detected \cap {"violence", "self_harm",
                                   "illegal_activity"} # {}
                 THEN "critical"
            ELSE IF "hate_speech" \in detected THEN "high"
            ELSE IF "pii_exposure" \in detected THEN "medium"
            ELSE "low"
    IN [is_safe |-> risk_level \in {"safe", "low"},
        risk_level |-> risk_level,
        detected_issues |-> detected]

\* a logger that keeps only the events of blocked requests
AuditLogger_log_blocked_only(_logs, event_type, identifier, details, risk_level) ==
    IF risk_level = "safe" THEN _logs
    ELSE Append(_logs, [event_type |-> event_type, identifier |-> identifier,
                        risk_level |-> risk_level, details |-> details])

\* L366-407  AuditLogger.log: self._logs after the call
AuditLogger_log(_logs, event_type, identifier, details, risk_level) ==
    Append(_logs, [event_type |-> event_type, identifier |-> identifier,
                   risk_level |-> risk_level, details |-> details])

\* L304-324  the rate_info of a RateLimiter.check
rate_info(last) ==
    [minute_remaining |-> last.minute_remaining,
     hour_remaining |-> last.hour_remaining,
     blocked_by |-> last.blocked_by]

NoSafetyCheck == [called |-> FALSE, text |-> Text(<<>>, {}, {}, 0),
                  identifier |-> "", tokens |-> 0, returned |-> FALSE,
                  results |-> [is_safe |-> TRUE, checks |-> <<>>,
                               blocked_by |-> "None"]]

\* sp.n is history: the check calls made
InitSafety ==
    /\ mode = "safety"
    /\ NoPipeline
    /\ \E cfg \in PipelineConfigs :
          /\ rl = [config |-> cfg,
                   _buckets |-> [i \in Identifiers |-> None],
                   now |-> 0,
                   allowed |-> [i \in Identifiers |->
                                   [minute |-> 0, hour |-> 0]],
                   last |-> NoCheck]
          /\ sp = [config |-> cfg, _logs |-> <<>>, n |-> 0,
                   last |-> NoSafetyCheck]
    /\ other = Absent
    /\ mpc = Absent
    /\ buf = Absent
    /\ agent = Absent
    /\ orch = Absent

SafetyFrame == UNCHANGED <<mode, constructed, config, chunks, bm25,
                           embeddings, vector_store, client_db, ipc,
                           documents, i_chunks, i_out, rpc, r_loc, q_out,
                           calls, snap, gen, seen, prev, ch, ctor, other,
                           mpc, buf, agent, orch>>

\* a minute passes between two check calls
safety_advance ==
    /\ mode = "safety"
    /\ rl.now < MaxTime
    /\ rl' = [rl EXCEPT !.now = @ + 1]
    /\ UNCHANGED sp
    /\ SafetyFrame

\* L449-533  SafetyPipeline.check(text, identifier, tokens); the coroutine
\* has no await, so it runs from its call to its return in one step.
\* results["checks"] is kept as the list of its (key, value) items.
SafetyPipeline_check ==
    /\ mode = "safety"
    /\ sp.n < MaxChecks
    /\ \E text \in CheckedTexts, identifier \in Identifiers, tokens \in TokenArgs :
         LET \* L474-475
             limiter == rate_limiter_check(rl, identifier, tokens)
             rate_allowed == limiter.last.allowed
             c1 == <<[key |-> "rate_limit", value |-> rate_info(limiter.last)]>>
             \* L489-494
             d == detect(text, sp.config)
             c2 == Append(c1, [key |-> "injection",
                               value |-> [detected |-> d.is_injection,
                                          confidence |-> d.confidence,
                                          patterns |->
                                              SubSeq(d.patterns, 1,
                                                     Min(3, Len(d.patterns)))]])
             \* L508-513
             f == filter(text, sp.config)
             c3 == Append(c2, [key |-> "content",
                               value |-> [is_safe |-> f.is_safe,
                                          risk_level |-> f.risk_level,
                                          detected_issues |->
                                              f.detected_issues]])
             done(returned, checks, blocked_by, event_type, details, risk) ==
                 /\ sp' = [sp EXCEPT
                             !._logs = AuditLogger_log(@, event_type,
                                                       identifier, details,
                                                       risk),
                             !.n = @ + 1,
                             !.last = [called |-> TRUE, text |-> text,
                                       identifier |-> identifier,
                                       tokens |-> tokens,
                                       returned |-> returned,
                                       results |-> [is_safe |-> returned,
                                                    checks |-> checks,
                                                    blocked_by |-> blocked_by]]]
                 /\ rl' = limiter
         IN IF ~rate_allowed
            THEN \* L477-486
                 done(FALSE, c1, "rate_limit", "rate_limit_exceeded",
                      c1[1].value, "medium")
            ELSE IF d.is_injection
            THEN \* L496-505
                 done(FALSE, c2, "injection", "injection_detected",
                      c2[2].value, "high")
            ELSE IF ~f.is_safe
            THEN \* L515-524
                 done(FALSE, c3, "content_filter", "content_blocked",
                      c3[3].value, f.risk_level)
            ELSE \* L527-533
                 done(TRUE, c3, "None", "request_allowed",
                      [text_length |-> text.len], "safe")
    /\ SafetyFrame

NextSafety == safety_advance \/ SafetyPipeline_check

SpecSafety == InitSafety /\ [][NextSafety]_vars

\* -------------------------------------------------------------- ReAct agent
\* skills/ai-agent-basics/scripts/react_agent.py.  agent.pc is the node the
\* graph runs next ("route": the conditional edge after reason); a message
\* is kept as its type and the number of its tool calls.
MaxIterationsArgs == 0..MaxIterations

HumanMessage == [type |-> "human", tool_calls |-> 0]
AIMessage(tool_calls) == [type |-> "ai", tool_calls |-> tool_calls]
ToolMessage == [type |-> "tool", tool_calls |-> 0]

\* add_messages, the reducer of AgentState.messages (L29): a node's messages
\* are appended to the state's
add_messages(left, right) == left \o right

\* the edge taken whatever the iteration count is
route_after_reason_unlimited(state) == state.current_step

\* L155-161  route_after_reason(state)
route_after_reason(state) ==
    IF state.iteration_count >= state.max_iterations THEN "respond"
    ELSE state.current_step

\* L207-212  main's initial_state, for the max_iterations at hand; the entry
\* point of the graph is reason (L179).  agent.reason and agent.act are
\* history: how often the two nodes have run.
InitReact ==
    /\ mode = "react"
    /\ NoPipeline
    /\ \E max_iterations \in MaxIterationsArgs :
          agent = [pc |-> "reason",
                   state |-> [messages |-> <<HumanMessage>>,
                              current_step |-> "reason",
                              iteration_count |-> 0,
                              max_iterations |-> max_iterations],
                   reason |-> 0, act |-> 0, outcome |-> NoOutcome]
    /\ other = Absent
    /\ mpc = Absent
    /\ buf = Absent
    /\ rl = Absent
    /\ sp = Absent
    /\ orch = Absent

ReactFrame == UNCHANGED <<mode, constructed, config, chunks, bm25, embeddings,
                          vector_store, client_db, ipc, documents, i_chunks,
                          i_out, rpc, r_loc, q_out, calls, snap, gen, seen,
                          prev, ch, ctor, other, mpc, buf, rl, sp, orch>>

\* L84-108  reason_node: the model's response, with or without tool calls,
\* is added to the messages; or llm.invoke raises and the run ends with it
reason_node ==
    /\ mode = "react"
    /\ agent.pc = "reason"
    /\ \/ \E tool_calls \in 0..MaxToolCalls :
             agent' = [agent EXCEPT
                         !.state.messages =
                             add_messages(@, <<AIMessage(tool_calls)>>),
                         !.state.current_step =
                             IF tool_calls > 0 THEN "act" ELSE "respond",
                         !.state.iteration_count = @ + 1,
                         !.reason = @ + 1,
                         !.pc = "route"]
       \/ agent' = [agent EXCEPT
                      !.reason = @ + 1,
                      !.pc = "raised",
                      !.outcome = Raised("L98", "APIError", TRUE)]
    /\ ReactFrame

\* L185-193  the conditional edge after reason: route_after_reason names the
\* next node, "end" the END of the graph
route ==
    /\ mode = "react"
    /\ agent.pc = "route"
    /\ LET next == route_after_reason(agent.state)
       IN agent' = [agent EXCEPT
                      !.pc = IF next = "end" THEN "END" ELSE next,
                      !.outcome = IF next = "end" THEN Ok ELSE @]
    /\ ReactFrame

\* L111-136  act_node: one ToolMessage per tool call of the last message, and
\* the edge back to reason (L194); or execute_tool raises (a search call
\* without its 'query', L69) and the run ends with it
act_node ==
    /\ mode = "react"
    /\ agent.pc = "act"
    /\ LET last_message == agent.state.messages[Len(agent.state.messages)]
       IN \/ agent' = [agent EXCEPT
                         !.state.messages =
                             add_messages(@, [i \in 1..last_message.tool_calls
                                                |-> ToolMessage]),
                         !.state.current_step = "reason",
                         !.act = @ + 1,
                         !.pc = "reason"]
          \/ /\ last_message.tool_calls > 0
             /\ agent' = [agent EXCEPT
                            !.act = @ + 1,
                            !.pc = "raised",
                            !.outcome = Raised("L69", "KeyError", FALSE)]
    /\ ReactFrame

\* L139-148  respond_node, and the edge to END (L195)
respond_node ==
    /\ mode = "react"
    /\ agent.pc = "respond"
    /\ agent' = [agent EXCEPT !.state.current_step = "end",
                              !.pc = "END",
                              !.outcome = Ok]
    /\ ReactFrame

NextReact == reason_node \/ route \/ act_node \/ respond_node

SpecReact == InitReact /\ [][NextReact]_vars

\* the graph runs its next node as long as there is one
SpecReactLive == SpecReact /\ WF_vars(NextReact)

\* ------------------------------------------------------ orchestrator-worker
\* skills/multi-agent/scripts/orchestrator_worker.py.  orch.pc is the node
\* the graph runs next ("route": the conditional edge after plan and after
\* execute).  A task is kept as its id, status, result, dependencies and
\* whether its worker_type is one of WorkerType's values.
TaskIds == <<"task_1", "task_2", "task_3", "task_4">>

\* the ids a plan of n tasks may name as dependencies: its own and one that
\* no task has
DepIds(n) == {TaskIds[i] : i \in 1..n} \cup {"task_x"}

\* L165-176  the task dict made of one entry of the model's plan
PlannedTask(id, worker_type, dependencies) ==
    [id |-> id, worker_type |-> worker_type, status |-> "pending",
     result |-> None, dependencies |-> dependencies]

\* What the model's response can say of one task of a plan of n tasks: is
\* its id its own (task_i) or, not unique, task_1; any worker_type; any
\* dependencies, also on itself, on later tasks and on no task.
TaskChoices(n) == BOOLEAN \X {"researcher", "wizard"} \X SUBSET DepIds(n)

\* L164-176  the tasks made of the response's plan
PlannedTasks(n, said) ==
    [i \in 1..n |-> PlannedTask(IF said[i][1] THEN TaskIds[i] ELSE "task_1",
                                said[i][2], said[i][3])]

\* L181-190  the plan made when the response cannot be parsed
FallbackTasks == <<PlannedTask("task_1", "researcher", {})>>

\* a check that finds every dependency completed
unmet_never(tasks, task) == FALSE

\* L217-223  is a dependency of the task not completed: the first task with
\* a dependency's id, if there is one, has another status
unmet(tasks, task) ==
    \E dep_id \in task.dependencies :
       LET named == {i \in 1..Len(tasks) : tasks[i].id = dep_id}
       IN named # {} /\
          tasks[CHOOSE i \in named : \A j \in named : i <= j].status
             # "completed"

\* L321-332  route_orchestrator(state)
route_orchestrator(state) ==
    IF state.status = "executing"
    THEN IF state.current_task_idx < Len(state.tasks)
         THEN "execute" ELSE "synthesize"
    ELSE IF state.status = "synthesizing" THEN "synthesize"
    ELSE "end"

\* L397-406  main's initial_state; the entry point of the graph is plan
\* (L350).  orch.last is history: what the last node run did.
InitOrch ==
    /\ mode = "orch"
    /\ NoPipeline
    /\ orch = [pc |-> "plan",
               state |-> [plan |-> <<>>, tasks |-> <<>>,
                          current_task_idx |-> 0, results |-> {},
                          final_output |-> "", status |-> "planning"],
               last |-> "", outcome |-> NoOutcome]
    /\ other = Absent
    /\ mpc = Absent
    /\ buf = Absent
    /\ rl = Absent
    /\ sp = Absent
    /\ agent = Absent

OrchFrame == UNCHANGED <<mode, constructed, config, chunks, bm25, embeddings,
                         vector_store, client_db, ipc, documents, i_chunks,
                         i_out, rpc, r_loc, q_out, calls, snap, gen, seen,
                         prev, ch, ctor, other, mpc, buf, rl, sp, agent>>

\* L124-198  create_plan: the tasks of the model's response, or the
\* fallback task when the response does not parse; or llm.invoke raises
create_plan ==
    /\ mode = "orch"
    /\ orch.pc = "plan"
    /\ \/ \E n \in 0..MaxTasks : \E said \in [1..n -> TaskChoices(n)] :
             orch' = [orch EXCEPT
                        !.state.plan = PlannedTasks(n, said),
                        !.state.tasks = PlannedTasks(n, said),
                        !.state.current_task_idx = 0,
                        !.state.status = "executing",
                        !.last = "planned",
                        !.pc = "route"]
       \/ orch' = [orch EXCEPT
                     !.state.plan = <<>>,
                     !.state.tasks = FallbackTasks,
                     !.state.current_task_idx = 0,
                     !.state.status = "executing",
                     !.last = "planned",
                     !.pc = "route"]
       \/ orch' = [orch EXCEPT
                     !.pc = "raised",
                     !.outcome = Raised("L158", "APIError", TRUE)]
    /\ OrchFrame

\* L352-363  the conditional edge after plan and after execute
orch_route ==
    /\ mode = "orch"
    /\ orch.pc = "route"
    /\ LET next == route_orchestrator(orch.state)
       IN orch' = [orch EXCEPT
                     !.pc = IF next = "end" THEN "END" ELSE next,
                     !.outcome = IF next = "end" THEN Ok ELSE @]
    /\ OrchFrame

\* L207-273  execute_task: past the last task, the status becomes
\* synthesizing; a task with a dependency that is not completed returns the
\* state as it is; WorkerType(...) raises ValueError for a worker_type it
\* does not have; llm.invoke raises; or the task is completed, its result
\* stored under its id, and the index moves on.
execute_task ==
    /\ mode = "orch"
    /\ orch.pc = "execute"
    /\ LET tasks == orch.state.tasks
           idx == orch.state.current_task_idx
       IN IF idx >= Len(tasks)
          THEN orch' = [orch EXCEPT !.state.status = "synthesizing",
                                    !.last = "past",
                                    !.pc = "route"]
          ELSE LET task == tasks[idx + 1]
               IN IF unmet(tasks, task)
                  THEN orch' = [orch EXCEPT !.last = "waited",
                                            !.pc = "route"]
                  ELSE IF task.worker_type # "researcher"
                  THEN orch' = [orch EXCEPT
                                  !.last = "failed",
                                  !.pc = "raised",
                                  !.outcome = Raised("L228", "ValueError",
                                                     FALSE)]
                  ELSE \/ orch' = [orch EXCEPT
                                     !.state.tasks[idx + 1].status =
                                         "completed",
                                     !.state.tasks[idx + 1].result =
                                         <<"content", idx>>,
                                     !.state.results =
                                         dict_set(@, task.id,
                                                  <<"content", idx>>),
                                     !.state.current_task_idx = idx + 1,
                                     !.last = "executed",
                                     !.pc = "route"]
                       \/ orch' = [orch EXCEPT
                                     !.last = "failed",
                                     !.pc = "raised",
                                     !.outcome = Raised("L250", "APIError",
                                                        TRUE)]
    /\ OrchFrame

\* L276-314  synthesize_results, and the edge to END (L364); or llm.invoke
\* raises
synthesize_results ==
    /\ mode = "orch"
    /\ orch.pc = "synthesize"
    /\ \/ orch' = [orch EXCEPT !.state.final_output = "final",
                               !.state.status = "complete",
                               !.last = "synthesized",
                               !.pc = "END",
                               !.outcome = Ok]
       \/ orch' = [orch EXCEPT
                     !.pc = "raised",
                     !.outcome = Raised("L305", "APIError", TRUE)]
    /\ OrchFrame

NextOrch == create_plan \/ orch_route \/ execute_task \/ synthesize_results

SpecOrch == InitOrch /\ [][NextOrch]_vars

\* the graph runs its next node as long as there is one
SpecOrchLive == SpecOrch /\ WF_vars(NextOrch)

TypeOK ==
    /\ mode \in {"seq", "conc", "fusion", "repeat", "chunk", "two", "llm",
                 "buffer", "rate", "safety", "react", "orch"}
    /\ constructed \in BOOLEAN
    /\ ipc \in {"idle", "L255", "L258", "L263", "L268", "L278", "L284", "L286"}
    /\ rpc \in {"idle", "L306", "L315", "L316", "L326", "L332", "L337", "L396"}
    /\ calls \in 0..MaxIngests

\* ================================================================== claims

\* C1: ingest is all-or-nothing: when an ingest call has failed, the chunk
\* list, the lexical index and the vector index (the collection and the
\* retriever's handle on it) are exactly what they were when it was called.
C1_IngestAllOrNothing ==
    (ipc = "idle" /\ i_out.status = "raised") => Indices = snap

\* the generations a retrieve has read so far
ReadLexical == seen.bm25 # 0 - 1
ReadVector == seen.coll # 0 - 1
ReadChunks == seen.chunks # 0 - 1

\* C2: a retrieve that runs concurrently with index() never observes a
\* half-rebuilt index: the lexical index, the vector collection and the chunk
\* list it reads were written by one same ingest, the collection it queries
\* is completely filled, and it never indexes past the end of the chunk list.
C2_NoHalfRebuiltRead ==
    /\ (ReadLexical /\ ReadVector) => (seen.coll = seen.bm25 /\ seen.full)
    /\ (ReadLexical /\ ReadChunks) => seen.chunks = seen.bm25
    /\ q_out.outcome.error # "IndexError"

\* C3: when the embedding provider raises on encode during ingest (L284), no
\* later retrieve is answered from the vector collection of that ingest,
\* which holds only part (none) of the corpus being ingested.
C3_NoPartialVectorIndex ==
    (ipc = "idle" /\ i_out.status = "raised" /\ i_out.at = "L284"
        /\ q_out.outcome.status = "ok")
    => ~(seen.coll = calls /\ ~seen.full)

\* the corpus the documents of the most recent ingest call chunk to
LastCorpus ==
    Concat([d \in 1..Len(documents) |-> chunker_chunk(documents[d], config)])

\* C4: ingest replaces, it does not accumulate: after a successful ingest the
\* chunk list, the lexical index and the vector collection hold exactly the
\* chunks of the documents of that call, in document order, and a later query
\* returns no chunk that only an earlier ingest produced.
C4_IngestReplaces ==
    (ipc = "idle" /\ i_out.status = "ok") =>
        /\ chunks = LastCorpus
        /\ bm25 = [corpus |-> [i \in 1..Len(LastCorpus) |->
                                 <<LastCorpus[i].content>>]]
        /\ Live(vector_store, client_db)
        /\ client_db.ids = [i \in 1..Len(LastCorpus) |-> LastCorpus[i].chunk_id]
        /\ \A i \in 1..Len(r_loc.relevant_chunks) :
              r_loc.relevant_chunks[i] \in Range(LastCorpus)
        /\ q_out.outcome.status = "ok" =>
              \A i \in 1..Len(q_out.result.sources) :
                 \E c \in Range(LastCorpus) :
                    /\ q_out.result.sources[i].content[1] = c.content
                    /\ q_out.result.sources[i].metadata = c.metadata

\* C4's case: a second successful ingest dropped a chunk of the first, and a
\* query after it returned chunks.
C4_Witness ==
    /\ ipc = "idle" /\ i_out.status = "ok" /\ calls = 2
    /\ snap.client_db # None /\ snap.client_db.full
    /\ \E c \in Range(snap.chunks) : c \notin Range(chunks)
    /\ q_out.outcome.status = "ok"
    /\ q_out.result.context_used > 0

\* C5: a query on a freshly constructed pipeline that never ingested returns
\* normally with zero sources, a count of zero and an empty context.
C5_FreshQueryEmpty ==
    (constructed /\ calls = 0 /\ q_out.outcome.status # "none") =>
        /\ q_out.outcome.status = "ok"
        /\ q_out.result.sources = <<>>
        /\ q_out.result.context_used = 0
        /\ q_out.result.answer.context_summary = <<>>

\* C6: an ingest whose documents produce zero chunks succeeds (unless a
\* provider fault is injected) and leaves an empty corpus, and a query
\* against it returns zero results and an empty context, never an exception.
C6_EmptyIngestSucceeds ==
    (ipc = "idle" /\ i_out.status # "none" /\ i_chunks = <<>>
        /\ ~i_out.injected) =>
        /\ i_out.status = "ok"
        /\ chunks = <<>>
        /\ (q_out.outcome.status # "none" /\ ~q_out.outcome.injected) =>
              /\ q_out.outcome.status = "ok"
              /\ q_out.result.context_used = 0
              /\ q_out.result.answer.context_summary = <<>>

\* C7: retrieval never silently falls back to lexical-only ranking: a
\* retrieve that returns over a non-empty corpus has fused the lexical
\* ranking with a non-empty vector ranking of a collection that holds that
\* same corpus.
C7_NoLexicalOnlyFallback ==
    (rpc = "L396" /\ chunks # <<>>) =>
        /\ r_loc.vector_results # <<>>
        /\ IF Live(vector_store, client_db)
           THEN client_db.ids = ids_of(chunks)
           ELSE FALSE

ValidConfig(cfg) ==
    /\ cfg.top_k_final <= cfg.top_k_initial
    /\ cfg.bm25_weight >= 0
    /\ cfg.vector_weight >= 0

\* C8: a configuration with top_k_final > top_k_initial or a negative weight
\* is rejected at construction, so no pipeline exists, and no ingest or query
\* runs, under such a configuration.
C8_ConfigRejectedEagerly == constructed => ValidConfig(config)

\* the chunk ids of the truncated lexical ranking, best first
LexicalIds ==
    [i \in 1..Len(r_loc.bm25_results) |->
        chunks[r_loc.bm25_results[i][1] + 1].chunk_id]

\* the score map's entry for a chunk id
ScoreOf(cid) ==
    r_loc.scores[CHOOSE i \in 1..Len(r_loc.scores) : r_loc.scores[i][1] = cid][2]

\* sum of weight/(k+r+1), scaled by RRFScale, over the 0-based ranks r >= r0
\* at which cid stands in the ranking
RECURSIVE RankSum(_, _, _, _)
RankSum(ranking, cid, weight, r0) ==
    IF ranking = <<>> THEN 0
    ELSE (IF Head(ranking) = cid
          THEN (weight * RRFScale) \div (k + r0 + 1)
          ELSE 0)
         + RankSum(Tail(ranking), cid, weight, r0 + 1)

A == md5("alpha")
B == md5("bravo")
C == md5("charlie")
D == md5("delta")

Scenario ==
    /\ rpc = "L396"
    /\ config.bm25_weight = 10 /\ config.vector_weight = 10
    /\ LexicalIds = <<A, B, C>>
    /\ r_loc.vector_results = <<B, A, D>>

\* 1-based place of a chunk id in what retrieve returned, 0 when not returned
Pos(cid) ==
    IF \E i \in 1..Len(r_loc.relevant_chunks) :
          r_loc.relevant_chunks[i].chunk_id = cid
    THEN CHOOSE i \in 1..Len(r_loc.relevant_chunks) :
            r_loc.relevant_chunks[i].chunk_id = cid
    ELSE 0

SingleListOnly ==
    /\ ScoreOf(C) = (10 * RRFScale) \div (k + 3)
    /\ ScoreOf(D) = (10 * RRFScale) \div (k + 3)
    /\ \A x \in {C, D} : \A y \in {A, B} :
          /\ ScoreOf(x) < ScoreOf(y)
          /\ Pos(x) > 0 => Pos(x) > Pos(y)

\* C10 as stated: in the scenario retrieve ranks B ahead of A, and C and D
\* get a single-list contribution each and stand strictly below A and B in
\* fused score and in the returned order.
C10_BOutranksA ==
    Scenario =>
        /\ Pos(A) > 0 /\ Pos(B) > 0 /\ Pos(B) < Pos(A)
        /\ SingleListOnly

\* C10 amended: in the scenario A and B have the same fused score and
\* retrieve returns A first and B second (the tie goes to the id that entered
\* the score map first); C and D get a single-list contribution each and
\* stand strictly below A and B in fused score and in the returned order.
C10_TieKeepsAFirst ==
    Scenario =>
        /\ ScoreOf(A) = ScoreOf(B)
        /\ Pos(A) = 1 /\ Pos(B) = 2
        /\ SingleListOnly

\* C10's case: the scenario, with all four chunks returned.
C10_Witness == Scenario /\ Len(r_loc.relevant_chunks) = 4

\* the keys of the score map, in insertion order
ScoreKeys == [i \in 1..Len(r_loc.scores) |-> r_loc.scores[i][1]]

\* 1-based place of a chunk id among the keys of the score map
InsIdx(cid) == CHOOSE i \in 1..Len(ScoreKeys) : ScoreKeys[i] = cid

\* a sequence without the later occurrences of its elements
RECURSIVE FirstOccurrences(_, _)
FirstOccurrences(s, acc) ==
    IF s = <<>> THEN acc
    ELSE FirstOccurrences(Tail(s),
                          IF Head(s) \in Range(acc) THEN acc
                          ELSE Append(acc, Head(s)))

\* C11: retrieve returns chunks in descending order of fused score; chunks
\* with equal fused score stand in the order their ids entered the score map,
\* which is the lexical ranking followed by the ids of the vector ranking
\* that the lexical ranking did not hold.
C11_DescendingStable ==
    rpc = "L396" =>
        /\ ScoreKeys = FirstOccurrences(LexicalIds \o r_loc.vector_results, <<>>)
        /\ \A i, j \in 1..Len(r_loc.relevant_chunks) :
              i < j =>
                 LET x == r_loc.relevant_chunks[i].chunk_id
                     y == r_loc.relevant_chunks[j].chunk_id
                 IN \/ ScoreOf(x) > ScoreOf(y)
                    \/ ScoreOf(x) = ScoreOf(y) /\ InsIdx(x) < InsIdx(y)

\* C11's case: retrieve returned two chunks of different fused score and two
\* of equal fused score, one of which only the vector ranking held.
C11_Witness ==
    /\ rpc = "L396"
    /\ \E i, j \in 1..Len(r_loc.relevant_chunks) :
          /\ i < j
          /\ ScoreOf(r_loc.relevant_chunks[i].chunk_id)
                > ScoreOf(r_loc.relevant_chunks[j].chunk_id)
    /\ \E i, j \in 1..Len(r_loc.relevant_chunks) :
          /\ i < j
          /\ ScoreOf(r_loc.relevant_chunks[i].chunk_id)
                = ScoreOf(r_loc.relevant_chunks[j].chunk_id)
          /\ r_loc.relevant_chunks[j].chunk_id \notin Range(LexicalIds)

\* the ids of the score map whose fused score is not zero
NonZeroIds == {cid \in Range(ScoreKeys) : ScoreOf(cid) # 0}

\* C12: each sub-ranking contributes at most top_k_initial candidates, and
\* retrieve returns exactly min(top_k_final, number of distinct candidates
\* with nonzero fused score) chunks, each with nonzero fused score, pairwise
\* distinct, and each a chunk of the indexed corpus.
C12_ReturnCount ==
    rpc = "L396" =>
        /\ Len(r_loc.bm25_results) <= config.top_k_initial
        /\ Len(r_loc.vector_results) <= config.top_k_initial
        /\ Len(r_loc.relevant_chunks)
              = Min(config.top_k_final, Cardinality(NonZeroIds))
        /\ \A i \in 1..Len(r_loc.relevant_chunks) :
              /\ r_loc.relevant_chunks[i].chunk_id \in NonZeroIds
              /\ r_loc.relevant_chunks[i] \in Range(chunks)
        /\ IsInjective(ids_of(r_loc.relevant_chunks))

\* the 0-based ranks whose contribution the scaling by RRFScale keeps exact
ExactRanks == {r \in 0..k : RRFScale % (k + r + 1) = 0}

\* the fused score retrieve gives a chunk that stands at 0-based rank r in the
\* lexical ranking and at rank rv in the vector ranking
FusedAt(cfg, r, rv) ==
    AddScore(AddScore(<<>>, "c", RRFTerm(cfg.bm25_weight, r)),
             "c", RRFTerm(cfg.vector_weight, rv))[1][2]

\* C13: under every configuration a pipeline was constructed with, the fused
\* score of a chunk does not increase when its rank in one sub-ranking gets
\* worse while its rank in the other stays the same.
C13_ScoreMonotoneInRank ==
    constructed =>
        \A r, r2, fixed \in ExactRanks :
           r < r2 =>
              /\ FusedAt(config, r, fixed) >= FusedAt(config, r2, fixed)
              /\ FusedAt(config, fixed, r) >= FusedAt(config, fixed, r2)

C15_ReingestIdempotent ==
    (/\ ipc = "idle" /\ i_out.status = "ok"
     /\ prev.ingest_ok /\ prev.documents = documents) =>
        /\ Len(chunks) = Len(snap.chunks)
        /\ \A i \in 1..Len(chunks) :
              /\ chunks[i].content = snap.chunks[i].content
              /\ chunks[i].chunk_id = snap.chunks[i].chunk_id
        /\ bm25 = snap.bm25
        /\ client_db.ids = snap.client_db.ids

\* C15's case: the same documents, chunking to more than one chunk, were
\* ingested twice with success.
C15_Witness ==
    /\ ipc = "idle" /\ i_out.status = "ok" /\ calls = 2
    /\ prev.ingest_ok /\ prev.documents = documents
    /\ Len(chunks) >= 2

\* C16: in every corpus ingest hands to the retriever (index()'s argument,
\* and the chunk list index() makes of it) no two chunks carry the same
\* chunk_id, also when two documents chunk to identical trimmed content.
C16_UniqueChunkIds ==
    /\ ipc # "idle" => IsInjective(ids_of(i_chunks))
    /\ IsInjective(ids_of(chunks))

\* the chunk, as it was before _add_overlap, that a returned chunk was made of
Core(c) == ch.cores[c.metadata.chunk_index + 1]

\* C17: for prose and for code alike, when chunk_overlap > 0 every chunk
\* chunk() returns but the first begins with the last chunk_overlap words
\* (all of them when there are fewer) of the pre-overlap content of the chunk
\* returned before it.
C17_OverlapPrefix ==
    (ch.pc = "done" /\ config.chunk_overlap > 0) =>
        \A j \in 2..Len(ch.chunks) :
           StartsWith(ch.chunks[j].content,
                      str_join(<<" ">>,
                               LastWords(split_words(Core(ch.chunks[j - 1]),
                                                     <<>>),
                                         config.chunk_overlap)))

\* C18: every chunk chunk() returns holds, besides the overlap words copied
\* from its predecessor, at least one non-whitespace character of its own
\* region of the text.
C18_NoEmptyCore ==
    ch.pc = "done" =>
        \A j \in 1..Len(ch.chunks) : strip(Core(ch.chunks[j])) # <<>>

\* C19: every chunk chunk() returns has content that is not empty, has no
\* leading or trailing whitespace and is at least min_chunk_size long, and a
\* candidate whose trimmed length is below min_chunk_size is returned in no
\* chunk.
C19_EmittedContent ==
    ch.pc = "done" =>
        /\ \A j \in 1..Len(ch.chunks) :
              /\ ch.chunks[j].content # <<>>
              /\ strip(ch.chunks[j].content) = ch.chunks[j].content
              /\ PyLen(ch.chunks[j].content) >= config.min_chunk_size
        /\ \A i \in 1..Len(ch.raw_chunks) :
              PyLen(strip(ch.raw_chunks[i])) < config.min_chunk_size =>
                 \A j \in 1..Len(ch.chunks) :
                    ch.chunks[j].metadata.chunk_index # i - 1

\* a string without its whitespace
NonWs(s) == SelectSeq(s, LAMBDA a : a \notin Whitespace)

\* s.endswith(p)
EndsWith(s, p) ==
    Len(s) >= Len(p) /\ SubSeq(s, Len(s) - Len(p) + 1, Len(s)) = p

\* the 0-based indices of the raw chunks that chunk() returned
EmittedIndices ==
    {ch.chunks[j].metadata.chunk_index : j \in 1..Len(ch.chunks)}

\* C20: chunking loses and reorders nothing: whitespace apart, the
\* pre-overlap contents of the raw chunks, concatenated in order, are the
\* text; every returned chunk ends with the pre-overlap content of its raw
\* chunk, in the order of the raw chunks; and a raw chunk that is not
\* returned is one whose trimmed length is below min_chunk_size.
C20_NothingLost ==
    ch.pc = "done" =>
        /\ NonWs(Concat(ch.cores)) = NonWs(ch.text)
        /\ Len(ch.cores) = Len(ch.raw_chunks)
        /\ \A j \in 1..Len(ch.chunks) :
              /\ EndsWith(NonWs(ch.chunks[j].content),
                          NonWs(Core(ch.chunks[j])))
              /\ \A j2 \in 1..Len(ch.chunks) :
                    j < j2 => ch.chunks[j].metadata.chunk_index
                                 < ch.chunks[j2].metadata.chunk_index
        /\ \A i \in 1..Len(ch.raw_chunks) :
              (i - 1) \notin EmittedIndices =>
                 PyLen(strip(ch.raw_chunks[i])) < config.min_chunk_size

\* C20's case: a prose text, one paragraph of which was split into
\* sentences, chunked to several raw chunks of which one, not blank, was
\* dropped and one returned.
C20_Witness ==
    /\ ch.pc = "done"
    /\ ~ch.is_code
    /\ Len(ch.cores) >= 2
    /\ ch.chunks # <<>>
    /\ \E i \in 1..Len(ch.raw_chunks) :
          (i - 1) \notin EmittedIndices /\ NonWs(ch.cores[i]) # <<>>
    /\ \E i \in 1..Len(ch.cores) :
          /\ NonWs(ch.cores[i]) # <<>>
          /\ ch.cores[i][Len(ch.cores[i])] = " "

\* C21: chunk() on the empty text returns no chunk, whatever the
\* configuration.
C21_EmptyTextNoChunks ==
    (ch.pc = "done" /\ ch.text = <<>>) => ch.chunks = <<>>

\* C22: chunk() on a text that is shorter than min_chunk_size returns no
\* chunk, whatever chunk_size and chunk_overlap.
C22_ShortTextNoChunks ==
    (ch.pc = "done" /\ PyLen(ch.text) < config.min_chunk_size) =>
        ch.chunks = <<>>

\* C22's case: a text shorter than min_chunk_size made several raw chunks,
\* and the overlap prefix made one of them longer than its own content.
C22_Witness ==
    /\ ch.pc = "done"
    /\ PyLen(ch.text) < config.min_chunk_size
    /\ ch.chunks = <<>>
    /\ \E i \in 2..Len(ch.raw_chunks) :
          PyLen(strip(ch.raw_chunks[i])) > PyLen(strip(ch.cores[i]))

\* the words of the text that are longer than chunk_size and stand once in it
LongTokens ==
    LET words == split_words(ch.text, <<>>)
    IN {w \in Range(words) :
          /\ PyLen(w) > config.chunk_size
          /\ Cardinality({i \in 1..Len(words) : words[i] = w}) = 1}

\* C23: a token longer than chunk_size is neither truncated nor split: it
\* stands whole in exactly one returned chunk, and the pre-overlap content of
\* that chunk is the token alone.
C23_LongTokenOwnChunk ==
    ch.pc = "done" =>
        \A w \in LongTokens :
           LET holders == {j \in 1..Len(ch.chunks) :
                             w \in Range(split_words(ch.chunks[j].content,
                                                     <<>>))}
           IN /\ Cardinality(holders) = 1
              /\ \A j \in holders : strip(Core(ch.chunks[j])) = w

\* C24: the metadata of every returned chunk has the keys chunk_index and
\* is_code and every key of the caller's metadata with the caller's value,
\* also for a caller's key chunk_index or is_code; the caller's dict is as it
\* was.
C24_CallerMetadataKept ==
    ch.pc = "done" =>
        \A j \in 1..Len(ch.chunks) :
           /\ {"chunk_index", "is_code"} \subseteq DOMAIN ch.chunks[j].metadata
           /\ \A key \in DOMAIN ch.metadata :
                 /\ key \in DOMAIN ch.chunks[j].metadata
                 /\ ch.chunks[j].metadata[key] = ch.metadata[key]

\* the context the spec describes for the chunks retrieve returned: their
\* contents in that order, each under its 1-based label, a separator between
\* two sources
LabelledContext(relevant) ==
    [j \in 1..(IF relevant = <<>> THEN 0 ELSE 3 * Len(relevant) - 1) |->
        CASE j % 3 = 1 -> [part |-> "label", source |-> (j + 2) \div 3]
          [] j % 3 = 2 -> [part |-> "content",
                           text |-> relevant[(j + 1) \div 3].content]
          [] OTHER -> [part |-> "separator"]]

\* C25: a query that returned gives the assembled context of the chunks
\* retrieve returned, in their order, each under its 1-based source label
\* and joined by the separator; the count it reports is the number of sources
\* it lists, the number of chunks retrieve returned, and at most top_k_final.
C25_QueryReturnsContext ==
    (mode = "repeat" /\ rpc = "idle" /\ prev.called
        /\ q_out.outcome.status = "ok") =>
        /\ q_out.result.answer.context_summary = LabelledContext(prev.result)
        /\ q_out.result.context_used = Len(q_out.result.sources)
        /\ q_out.result.context_used = Len(prev.result)
        /\ q_out.result.context_used <= config.top_k_final

\* the configuration options the specification enumerates
EnumeratedOptions == {"chunk_size", "chunk_overlap", "min_chunk_size",
                      "top_k_initial", "top_k_final", "bm25_weight",
                      "vector_weight", "rrf_k", "embedding_model",
                      "collection_name"}

\* C27: rrf_k is a configuration option: a pipeline constructed with a value
\* for rrf_k is constructed and has that value as its RRF constant, and the
\* options the configuration accepts are exactly the enumerated ones.
C27_RrfKOption ==
    (ctor.called /\ "rrf_k" \in DOMAIN ctor.kwargs) =>
        /\ ctor.outcome.status = "ok"
        /\ constructed
        /\ "rrf_k" \in DOMAIN config
        /\ config.rrf_k = ctor.kwargs.rrf_k
        /\ RAGConfigFields = EnumeratedOptions

\* C26: two pipelines whose configurations differ coexist: whatever ingest
\* calls the second pipeline has made, the first pipeline's chunk list,
\* lexical index and vector collection are the ones its own ingest built,
\* and its queries are answered from them.
C26_PipelinesCoexist ==
    mode = "two" =>
        LET own == Concat([d \in 1..Len(documents) |->
                              chunker_chunk(documents[d], config)])
        IN /\ chunks = own
           /\ bm25 = BM25Okapi([i \in 1..Len(own) |->
                                   lower_split(own[i].content)])
           /\ Live(vector_store, client_db)
           /\ client_db.ids = ids_of(own)
           /\ q_out.outcome.status # "raised"

\* the models the client was configured with: the list given, the default
\* chain when none was given
Configured ==
    IF mpc.given = None THEN DEFAULT_MODELS
    ELSE IF mpc.given.list = <<>> THEN DEFAULT_MODELS ELSE mpc.given.list

\* the provider calls of the running or last generate, failed ones before j
FailedBefore(j) == \A h \in 1..(j - 1) : ~mpc.run.tried[h].ok

\* C28: generate calls the configured models in ascending priority order
\* (equal priorities in the configured order), each at most once; when it
\* returns, the response is that of the last call, every call before it
\* failed and every configured model of a higher priority was called; it
\* raises "All providers failed" only when every configured model was called
\* and failed.
C28_FailoverInPriorityOrder ==
    mode = "llm" =>
        LET tried == mpc.run.tried
            n == Len(tried)
            pos(m) == CHOOSE i \in 1..Len(Configured) : Configured[i] = m
        IN /\ \A j \in 1..n : tried[j].model \in Range(Configured)
           /\ \A h, j \in 1..n :
                 h < j =>
                    \/ tried[h].model.priority < tried[j].model.priority
                    \/ /\ tried[h].model.priority = tried[j].model.priority
                       /\ pos(tried[h].model) < pos(tried[j].model)
           /\ FailedBefore(n)
           /\ mpc.run.outcome.status = "ok" =>
                 /\ n > 0 /\ tried[n].ok
                 /\ mpc.run.response = [provider |-> tried[n].model.provider,
                                        model |-> tried[n].model.model_id]
                 /\ \A i \in 1..Len(Configured) :
                       Configured[i].priority < tried[n].model.priority =>
                          \E h \in 1..(n - 1) : tried[h].model = Configured[i]
           /\ mpc.run.outcome.error = "RuntimeError" =>
                 /\ n = Len(Configured)
                 /\ \A i \in 1..Len(Configured) :
                       \E h \in 1..n : /\ tried[h].model = Configured[i]
                                       /\ ~tried[h].ok

\* C28's case: a generate that returned after a failover, on a client whose
\* list was not given in priority order
C28_Witness ==
    /\ mode = "llm"
    /\ mpc.run.outcome.status = "ok"
    /\ Len(mpc.run.tried) >= 2
    /\ mpc.models # Configured

\* the last n items of a sequence
LastN(s, n) == SubSeq(s, Len(s) - Min(n, Len(s)) + 1, Len(s))

\* C29: a BufferMemory of any max_size >= 0 holds at most max_size items,
\* they are the most recently added ones since the last clear, in insertion
\* order (so an add on a full buffer drops exactly the oldest item), and no
\* add raises.
C29_FixedSizeFIFO ==
    mode = "buffer" =>
        /\ Len(buf.buffer) <= buf.max_size
        /\ buf.buffer = LastN(buf.added, buf.max_size)
        /\ buf.outcome.status # "raised"

\* C30: for every identifier, the check calls allowed since its minute
\* bucket was last made or reset are at most requests_per_minute, those
\* since its hour bucket was last made or reset at most requests_per_hour;
\* a check with more tokens than max_tokens_per_request is not allowed; and
\* the remaining quota a check finds is the limit less the identifier's own
\* allowed calls of the window, whatever other identifiers have called.
C30_PerIdentifierLimits ==
    mode = "rate" =>
        /\ \A i \in Identifiers :
              /\ rl.allowed[i].minute <= rl.config.requests_per_minute
              /\ rl.allowed[i].hour <= rl.config.requests_per_hour
        /\ rl.last.called =>
              /\ rl.last.tokens > rl.config.max_tokens_per_request =>
                    ~rl.last.allowed
              /\ rl.last.minute_remaining =
                    rl.config.requests_per_minute - rl.last.own_minute
              /\ rl.last.hour_remaining =
                    rl.config.requests_per_hour - rl.last.own_hour

\* C30's case: an identifier is refused at its hour limit, having used up
\* exactly requests_per_hour, while the other identifier has been allowed
\* calls in its own window
C30_Witness ==
    /\ mode = "rate"
    /\ rl.last.called
    /\ rl.last.identifier = "u1"
    /\ rl.last.blocked_by = "hour_limit"
    /\ rl.allowed["u1"].hour = rl.config.requests_per_hour
    /\ rl.allowed["u2"].minute > 0

\* the lines of a text, and whether a line opens a structural boundary
Lines(text) == str_split(text, <<"\n">>, <<>>)

OpensBoundary(line) ==
    \E kw \in {"def", "class", "function", "async"} :
       LET t == strip(line)
       IN Len(t) >= 2 /\ t[1] = kw /\ t[2] = " "

\* line lengths plus one per line
RECURSIVE SizeOf(_)
SizeOf(lines) ==
    IF lines = <<>> THEN 0 ELSE PyLen(Head(lines)) + 1 + SizeOf(Tail(lines))

\* C32: in code chunking the raw chunks hold the lines of the text in their
\* order; a line that opens a structural boundary is the first line of its
\* raw chunk; a raw chunk has not reached chunk_size before its last line,
\* and a raw chunk that is followed by another one has reached chunk_size
\* unless the next one starts at a boundary.
C32_CodeChunkBoundaries ==
    (ch.pc \in {"L114", "done"} /\ ch.is_code) =>
        LET raw == ch.raw_chunks
            lines(i) == Lines(raw[i])
        IN /\ Concat([i \in 1..Len(raw) |-> lines(i)]) = Lines(ch.text)
           /\ \A i \in 1..Len(raw) :
                 /\ \A j \in 2..Len(lines(i)) : ~OpensBoundary(lines(i)[j])
                 /\ SizeOf(SubSeq(lines(i), 1, Len(lines(i)) - 1))
                       < config.chunk_size
                 /\ i < Len(raw) =>
                       \/ SizeOf(lines(i)) >= config.chunk_size
                       \/ OpensBoundary(lines(i + 1)[1])

\* C32's case: a raw chunk closed below chunk_size because the next line
\* opens a boundary
C32_Witness ==
    /\ ch.pc = "done"
    /\ ch.is_code
    /\ \E i \in 1..(Len(ch.raw_chunks) - 1) :
          /\ SizeOf(Lines(ch.raw_chunks[i])) < config.chunk_size
          /\ OpensBoundary(Lines(ch.raw_chunks[i + 1])[1])

\* The units of a prose text in their order: a paragraph that is no longer
\* than chunk_size, or else each sentence of the paragraph.  A unit is
\* written into a chunk with its terminator.
UnitsOfParagraph(para) ==
    IF PyLen(para) > config.chunk_size
    THEN LET sents == _split_sentences(para, <<>>, FALSE)
         IN [n \in 1..Len(sents) |->
                [body |-> sents[n], term |-> <<" ">>, opens |-> n = 1]]
    ELSE <<[body |-> para, term |-> <<"\n", "\n">>, opens |-> FALSE]>>

Units(text) ==
    LET paras == str_split(text, <<"\n", "\n">>, <<>>)
    IN Concat([n \in 1..Len(paras) |-> UnitsOfParagraph(paras[n])])

Written(u) == u.body \o u.term

\* how many of the leading units make up the text core, 0 when none do
RECURSIVE Taken(_, _, _)
Taken(core, units, n) ==
    IF core = <<>> THEN n
    ELSE IF units = <<>> \/ ~StartsWith(core, Written(Head(units))) THEN 0
    ELSE Taken(SubSeq(core, Len(Written(Head(units))) + 1, Len(core)),
               Tail(units), n + 1)

\* the cores as runs of units: for each core the units it holds
RECURSIVE Runs(_, _)
Runs(cores, units) ==
    IF cores = <<>> THEN <<>>
    ELSE LET n == Taken(Head(cores), units, 0)
         IN <<SubSeq(units, 1, n)>>
            \o Runs(Tail(cores), SubSeq(units, n + 1, Len(units)))

RECURSIVE WrittenLen(_)
WrittenLen(run) ==
    IF run = <<>> THEN 0 ELSE PyLen(Written(Head(run))) + WrittenLen(Tail(run))

\* C33: in prose chunking every pre-overlap chunk is a run of whole units in
\* the text's order; a chunk whose trimmed content is longer than chunk_size
\* is a single unit that alone is longer than chunk_size; a unit was added to
\* the chunk being filled exactly when the chunk's length plus the unit's
\* length did not exceed chunk_size: every later unit of a chunk fitted, and
\* the first unit of the next chunk did not fit (or is the first sentence of
\* a paragraph that did not fit).
C33_ChunkSizeBound ==
    (ch.pc \in {"L114", "done"} /\ ~ch.is_code) =>
        LET units == Units(ch.text)
            runs == Runs(ch.cores, units)
        IN /\ Concat(runs) = units
           /\ \A i \in 1..Len(runs) :
                 /\ Len(runs[i]) >= 1
                 /\ PyLen(strip(ch.cores[i])) > config.chunk_size =>
                       /\ Len(runs[i]) = 1
                       /\ PyLen(runs[i][1].body) > config.chunk_size
                 /\ \A n \in 2..Len(runs[i]) :
                       WrittenLen(SubSeq(runs[i], 1, n - 1))
                          + PyLen(runs[i][n].body) <= config.chunk_size
                 /\ i < Len(runs) =>
                       \/ PyLen(ch.cores[i]) + PyLen(runs[i + 1][1].body)
                             > config.chunk_size
                       \/ runs[i + 1][1].opens

\* C33's case: a chunk of two non-empty units, the second of which fitted
\* exactly, followed by another chunk
C33_Witness ==
    /\ ch.pc = "done"
    /\ ~ch.is_code
    /\ Len(ch.cores) >= 2
    /\ LET runs == Runs(ch.cores, Units(ch.text))
       IN /\ Len(runs[1]) = 2
          /\ runs[1][1].body # <<>>
          /\ runs[1][2].body # <<>>
          /\ WrittenLen(<<runs[1][1]>>) + PyLen(runs[1][2].body)
                = config.chunk_size

\* the ids retrieve is about to return, the scores being complete
ReturnedIds ==
    {cid \in Range(sorted_ids(r_loc.scores, config)) :
        cid \in Range(ids_of(chunks))}

\* C34: when retrieve has fused the two rankings, the score of every chunk
\* it returns holds at most one lexical term and at most one vector term,
\* and for non-negative weights is at most the two terms of rank 0.
C34_OneTermPerRanking ==
    rpc = "L337" =>
        \A cid \in ReturnedIds :
           /\ Cardinality({i \in 1..Len(r_loc.bm25_results) :
                 chunks[r_loc.bm25_results[i][1] + 1].chunk_id = cid}) <= 1
           /\ Cardinality({i \in 1..Len(r_loc.vector_results) :
                 r_loc.vector_results[i] = cid}) <= 1
           /\ (config.bm25_weight >= 0 /\ config.vector_weight >= 0) =>
                 ScoreOf(cid) <= RRFTerm(config.bm25_weight, 0)
                                   + RRFTerm(config.vector_weight, 0)

\* C38: the keys of BufferMemory's _index are the ids of the buffered items,
\* every entry holds a buffered item under that item's id, and a get returns
\* an item exactly when an item with the id asked for is in the buffer, also
\* when two items were given the same id.
C38_IndexMatchesBuffer ==
    mode = "buffer" =>
        /\ {e.key : e \in buf._index} = {item.id : item \in Range(buf.buffer)}
        /\ \A e \in buf._index :
              e.item \in Range(buf.buffer) /\ e.item.id = e.key
        /\ buf.got.called =>
              (buf.got.item # None
                 <=> \E item \in Range(buf.buffer) : item.id = buf.got.memory_id)

\* C37: the chunks a stream call has yielded to its consumer all come from
\* the response of one turn of the loop over the configured models.
C37_StreamFromOneProvider ==
    mode = "llm" =>
        \A a, b \in Range(mpc.st.received) : a.turn = b.turn

\* the checks of the last SafetyPipeline.check in the order rate limiting,
\* injection detection, content filtering: did each fail on the call's input
FailedChecks ==
    <<~rl.last.allowed,
      detect(sp.last.text, sp.config).is_injection,
      ~filter(sp.last.text, sp.config).is_safe>>

\* the first of them that failed, or 0
FirstFailed ==
    IF \E i \in 1..3 : FailedChecks[i]
    THEN CHOOSE i \in 1..3 :
            FailedChecks[i] /\ \A j \in 1..(i - 1) : ~FailedChecks[j]
    ELSE 0

\* C39: after a SafetyPipeline.check the returned flag is results["is_safe"]
\* and is False exactly when one of rate limiting, injection detection and
\* content filtering fails; blocked_by names the first failing one and is
\* None when none fails; results["checks"] holds the checks up to that one
\* and none after it; and the audit log has one entry per call.
C39_StopsAtFirstFailure ==
    (mode = "safety" /\ sp.last.called) =>
        /\ sp.last.returned = sp.last.results.is_safe
        /\ sp.last.returned = (FirstFailed = 0)
        /\ sp.last.results.blocked_by =
              <<"None", "rate_limit", "injection", "content_filter">>[
                  FirstFailed + 1]
        /\ [i \in 1..Len(sp.last.results.checks) |->
               sp.last.results.checks[i].key]
              = SubSeq(<<"rate_limit", "injection", "content">>, 1,
                       IF FirstFailed = 0 THEN 3 ELSE FirstFailed)
        /\ Len(sp._logs) = sp.n

\* a second check is stopped by the rate limit on a text that injection
\* detection and content filtering would both have blocked, after a first
\* check that passed
C39_Witness ==
    /\ mode = "safety"
    /\ sp.n = 2
    /\ sp.last.called
    /\ sp.last.results.blocked_by = "rate_limit"
    /\ FailedChecks = <<TRUE, TRUE, TRUE>>
    /\ Len(sp.last.results.checks) = 1
    /\ sp._logs[1].event_type = "request_allowed"
    /\ sp._logs[2].event_type = "rate_limit_exceeded"

\* C31: in a run of the ReAct agent with max_iterations >= 1 the reason
\* node runs at most max_iterations times and the act node at most
\* max_iterations - 1 times; once iteration_count has reached
\* max_iterations the edge after reason leads to respond, also when the last
\* response asked for tool calls; respond leads to the end; and every run
\* comes to its end.
C31_EndsWithinLimit ==
    /\ [](agent.state.max_iterations >= 1 =>
             /\ agent.reason <= agent.state.max_iterations
             /\ agent.act <= agent.state.max_iterations - 1)
    /\ [][(/\ agent.pc = "route"
           /\ agent.state.max_iterations >= 1
           /\ agent.state.iteration_count >= agent.state.max_iterations)
             => agent'.pc = "respond"]_vars
    /\ [][agent.pc = "respond" => agent'.pc = "END"]_vars
    /\ <>(agent.pc \in {"END", "raised"})

\* the run has ended through respond after max_iterations reason steps, the
\* last of which asked for tool calls
C31_Witness ==
    /\ mode = "react"
    /\ agent.pc = "END"
    /\ agent.state.max_iterations >= 2
    /\ agent.reason = agent.state.max_iterations
    /\ agent.act = agent.state.max_iterations - 1
    /\ \E i \in 1..Len(agent.state.messages) :
          /\ i = Len(agent.state.messages)
          /\ agent.state.messages[i].tool_calls > 0

\* a dependency id is met when it names no task of the plan or a task with
\* the id is completed
DependencyMet(tasks, dep_id) ==
    (\E i \in 1..Len(tasks) : tasks[i].id = dep_id) =>
        \E i \in 1..Len(tasks) :
           tasks[i].id = dep_id /\ tasks[i].status = "completed"

C36_RunTerminates ==
    <>(\/ orch.pc = "END" /\ orch.state.status = "complete"
       \/ orch.pc = "raised")

====
